---- MODULE Spec2Model ----
(***************************************************************************)
(* A model of xrandr-utils (src/src/main.rs): the verbose-output parser,   *)
(* the field extractors, the hex codec, the map output policy and the      *)
(* command dispatcher.                                                     *)
(*                                                                         *)
(* Text is modelled character by character: a string is a sequence of      *)
(* characters and a character is a one-character string.  The character    *)
(* U+000B (vertical tab), which Rust's char::is_whitespace accepts and     *)
(* char::is_ascii_whitespace rejects, is written "VT".                     *)
(* Option<T> is modelled as a sequence of length at most one.              *)
(***************************************************************************)
EXTENDS Integers, Sequences, FiniteSets, TLC

VARIABLES
    \* is_geometry_token: its argument and its result
    token, geomResult,
    \* parse_sections: its argument, the number of lines consumed, its locals
    verbose, lineNo, sections, current, segPc,
    \* extract_edid_hex: the lines of its section, the number of lines consumed, its locals, its result
    secLines, edidIdx, capture, hex, edidPc, edidResult,
    \* extract_serial: its argument and its result
    decoded, serialResult, serialPc,
    \* hex_to_bytes: its argument and its result
    hexText, hexResult, hexPc,
    \* a map command of run: the arguments left in the iterator, its locals, the sections gone through, what it printed, how it ended
    args, flags, entries, seen_values, stdout, mapPc, runResult,
    \* run: the command word, the sections parsed, the monitor map and the loop index of a map command, the xrandr command lines run, the Err values met, where run stands
    command, runSections, monitor_map, secIdx, xrandr_calls, errLog, runPc,
    \* parse_header: its argument and its result
    headerLine, headerResult, headerPc,
    \* parse_monitor_map: its argument and its result
    monitorText, monitorResult, monitorPc,
    \* extract_connector_id: the lines of its section and its result
    connectorLines, connectorResult, connectorPc

geomVars == <<token, geomResult>>
segVars == <<verbose, lineNo, sections, current, segPc>>
edidVars == <<secLines, edidIdx, capture, hex, edidPc, edidResult>>
serialVars == <<decoded, serialResult, serialPc>>
hexcVars == <<hexText, hexResult, hexPc>>
mapVars == <<args, flags, entries, seen_values, stdout, mapPc, runResult>>
runVars == <<command, runSections, monitor_map, secIdx, xrandr_calls, errLog, runPc>>
headerVars == <<headerLine, headerResult, headerPc>>
monitorVars == <<monitorText, monitorResult, monitorPc>>
connectorVars == <<connectorLines, connectorResult, connectorPc>>
vars == <<geomVars, segVars, edidVars, serialVars, hexcVars, mapVars, runVars, headerVars, monitorVars, connectorVars>>

\* What the steps of one function leave alone: the state of the others.
notGeom == <<segVars, edidVars, serialVars, hexcVars, mapVars, runVars, headerVars, monitorVars, connectorVars>>
notSeg == <<geomVars, edidVars, serialVars, hexcVars, mapVars, runVars, headerVars, monitorVars, connectorVars>>
notEdid == <<geomVars, segVars, serialVars, hexcVars, mapVars, runVars, headerVars, monitorVars, connectorVars>>
notSerial == <<geomVars, segVars, edidVars, hexcVars, mapVars, runVars, headerVars, monitorVars, connectorVars>>
notHexc == <<geomVars, segVars, edidVars, serialVars, mapVars, runVars, headerVars, monitorVars, connectorVars>>
notMap == <<geomVars, segVars, edidVars, serialVars, hexcVars, runVars, headerVars, monitorVars, connectorVars>>
\* run shares the variables of a map command, but for mapPc.
notRun == <<geomVars, segVars, edidVars, serialVars, hexcVars, headerVars, monitorVars, connectorVars, mapPc>>
notHeader == <<geomVars, segVars, edidVars, serialVars, hexcVars, mapVars, runVars, monitorVars, connectorVars>>
notMonitor == <<geomVars, segVars, edidVars, serialVars, hexcVars, mapVars, runVars, headerVars, connectorVars>>
notConnector == <<geomVars, segVars, edidVars, serialVars, hexcVars, mapVars, runVars, headerVars, monitorVars>>

\* ------------------------------------------------------------------
\* Option<T>
None == <<>>
Some(x) == <<x>>
IsSome(o) == o # <<>>
Unwrap(o) == o[1]

\* ------------------------------------------------------------------
\* Character classes of the Rust standard library, as the code uses them.
AsciiDigits == {"0", "1", "2", "3", "4", "5", "6", "7", "8", "9"}
is_ascii_digit(ch) == ch \in AsciiDigits
is_ascii_hexdigit(ch) ==
    ch \in AsciiDigits \cup {"a", "b", "c", "d", "e", "f"} \cup {"A", "B", "C", "D", "E", "F"}
is_ascii_whitespace(ch) == ch \in {" ", "\t", "\n", "\f", "\r"}
is_whitespace(ch) == ch \in {" ", "\t", "\n", "\f", "\r", "VT"}

\* All sequences over S of length at most n.
RECURSIVE SeqsUpTo(_, _)
SeqsUpTo(S, n) ==
    IF n = 0 THEN {<<>>}
    ELSE LET shorter == SeqsUpTo(S, n - 1)
         IN shorter \cup {Append(s, c) : s \in {t \in shorter : Len(t) = n - 1}, c \in S}

\* ------------------------------------------------------------------
\* Geometry token recognizer.  Indices are the code's zero-based byte
\* offsets; bytes[index] of the code is bytes[index + 1] here.
RECURSIVE SkipDigits(_, _)
SkipDigits(bytes, index) ==
    IF index < Len(bytes) /\ is_ascii_digit(bytes[index + 1])
    THEN SkipDigits(bytes, index + 1)
    ELSE index

consume_digits(bytes, index) ==
    IF index >= Len(bytes) \/ ~is_ascii_digit(bytes[index + 1])
    THEN None
    ELSE Some(SkipDigits(bytes, index))

\* consume_signed_number without its check that a digit follows the sign.
consume_signed_number_SignOnly(bytes, index) ==
    IF index >= Len(bytes) THEN None
    ELSE LET sign == bytes[index + 1] IN
         IF sign # "+" /\ sign # "-" THEN None
         ELSE Some(SkipDigits(bytes, index + 1))

consume_signed_number(bytes, index) ==
    IF index >= Len(bytes) THEN None
    ELSE LET sign == bytes[index + 1] IN
         IF sign # "+" /\ sign # "-" THEN None
         ELSE IF index + 1 >= Len(bytes) \/ ~is_ascii_digit(bytes[index + 2]) THEN None
         ELSE Some(SkipDigits(bytes, index + 1))

is_geometry_token(tok) ==
    LET len == Len(tok) IN
    IF len = 0 THEN FALSE
    ELSE LET w == consume_digits(tok, 0) IN
    IF w = None THEN FALSE
    ELSE IF Unwrap(w) >= len \/ tok[Unwrap(w) + 1] # "x" THEN FALSE
    ELSE LET h == consume_digits(tok, Unwrap(w) + 1) IN
    IF h = None THEN FALSE
    ELSE LET x == consume_signed_number(tok, Unwrap(h)) IN
    IF x = None THEN FALSE
    ELSE LET y == consume_signed_number(tok, Unwrap(x)) IN
    IF y = None THEN FALSE
    ELSE Unwrap(y) = len

\* ------------------------------------------------------------------
\* ^\d+x\d+[+-]\d+[+-]\d+$ stated positionally: i, j, k are the positions of
\* the `x` and of the two signs.
DigitsBetween(t, lo, hi) == lo <= hi /\ \A p \in lo..hi : t[p] \in AsciiDigits
MatchesGeometryPattern(t) ==
    \E i \in 1..Len(t) :
        /\ t[i] = "x"
        /\ DigitsBetween(t, 1, i - 1)
        /\ \E j \in (i + 1)..Len(t) :
              /\ t[j] \in {"+", "-"}
              /\ DigitsBetween(t, i + 1, j - 1)
              /\ \E k \in (j + 1)..Len(t) :
                    /\ t[k] \in {"+", "-"}
                    /\ DigitsBetween(t, j + 1, k - 1)
                    /\ DigitsBetween(t, k + 1, Len(t))

\* Inputs of the recognizer: every token over GeomChars of length at most
\* MaxTokenLen; and the longer well-formed tokens whose digit runs have at
\* most MaxRun digits, each also with one character replaced or removed.
MaxTokenLen == 7
MaxRun == 2
GeomChars == {"7", "x", "+", "-"}
EditChars == {"7", "x", "+", "-", "X", "a"}

RECURSIVE Digits(_)
Digits(n) == IF n = 0 THEN <<>> ELSE <<"7">> \o Digits(n - 1)
WellFormedTokens(run) ==
    {Digits(w) \o <<"x">> \o Digits(h) \o <<s1>> \o Digits(x) \o <<s2>> \o Digits(y) :
        w \in 1..run, h \in 1..run, x \in 1..run, y \in 1..run,
        s1 \in {"+", "-"}, s2 \in {"+", "-"}}
RemoveAt(t, p) == SubSeq(t, 1, p - 1) \o SubSeq(t, p + 1, Len(t))
OneEditTokens(run) ==
    UNION {{[t EXCEPT ![p] = c] : p \in 1..Len(t), c \in EditChars}
           \cup {RemoveAt(t, p) : p \in 1..Len(t)} : t \in WellFormedTokens(run)}
GeomTokens(len, run) == SeqsUpTo(GeomChars, len) \cup OneEditTokens(run)

CheckGeometry ==
    /\ geomResult = "unset"
    /\ geomResult' = IF is_geometry_token(token) THEN "true" ELSE "false"
    /\ UNCHANGED <<token, notGeom>>

\* ------------------------------------------------------------------
\* String operations of the Rust standard library, as the code uses them.

MinOf(S) == CHOOSE x \in S : \A y \in S : x <= y
MaxOf(S) == CHOOSE x \in S : \A y \in S : x >= y
\* The k-th smallest element of a set of numbers.
Kth(S, k) == CHOOSE x \in S : Cardinality({y \in S : y <= x}) = k

\* str::trim_start / trim_end / trim: strip Unicode whitespace.
NonWhitespaceIdx(s) == {i \in 1..Len(s) : ~is_whitespace(s[i])}
trim_start(s) ==
    IF NonWhitespaceIdx(s) = {} THEN <<>> ELSE SubSeq(s, MinOf(NonWhitespaceIdx(s)), Len(s))
trim_end(s) ==
    IF NonWhitespaceIdx(s) = {} THEN <<>> ELSE SubSeq(s, 1, MaxOf(NonWhitespaceIdx(s)))
trim(s) == trim_end(trim_start(s))

\* str::starts_with
starts_with(s, prefix) ==
    Len(s) >= Len(prefix) /\ SubSeq(s, 1, Len(prefix)) = prefix

\* str::split_whitespace: the maximal runs of non-whitespace characters.
WordStarts(s) == {i \in NonWhitespaceIdx(s) : i = 1 \/ is_whitespace(s[i - 1])}
WordEnds(s) == {i \in NonWhitespaceIdx(s) : i = Len(s) \/ is_whitespace(s[i + 1])}
split_whitespace(s) ==
    [k \in 1..Cardinality(WordStarts(s)) |->
        SubSeq(s, Kth(WordStarts(s), k), Kth(WordEnds(s), k))]

\* str::lines: the pieces ended by "\n", without it and without a "\r" right
\* before it; a last piece that no "\n" ends is a line unless it is empty.
NewlineIdx(text) == {i \in 1..Len(text) : text[i] = "\n"}
StripCr(piece) ==
    IF piece # <<>> /\ piece[Len(piece)] = "\r" THEN SubSeq(piece, 1, Len(piece) - 1) ELSE piece
lines(text) ==
    LET nl == NewlineIdx(text)
        n == Cardinality(nl)
        lastNl == IF nl = {} THEN 0 ELSE MaxOf(nl)
        StartOf(k) == IF k = 1 THEN 1 ELSE Kth(nl, k - 1) + 1
    IN [k \in 1..(IF lastNl < Len(text) THEN n + 1 ELSE n) |->
           IF k <= n THEN StripCr(SubSeq(text, StartOf(k), Kth(nl, k) - 1))
           ELSE SubSeq(text, StartOf(k), Len(text))]

\* ------------------------------------------------------------------
\* Header line parser.
STR_connected == <<"c", "o", "n", "n", "e", "c", "t", "e", "d">>
STR_disconnected == <<"d", "i", "s", "c", "o", "n", "n", "e", "c", "t", "e", "d">>
STR_primary == <<"p", "r", "i", "m", "a", "r", "y">>

\* ScanHeaderTokens letting a later geometry replace the one found.
RECURSIVE ScanHeaderTokens_LastGeometry(_, _, _, _)
ScanHeaderTokens_LastGeometry(parts, i, primary, geometry) ==
    IF i > Len(parts) THEN [primary |-> primary, geometry |-> geometry]
    ELSE IF parts[i] = STR_primary
         THEN ScanHeaderTokens_LastGeometry(parts, i + 1, TRUE, geometry)
         ELSE IF is_geometry_token(parts[i])
              THEN ScanHeaderTokens_LastGeometry(parts, i + 1, primary, Some(parts[i]))
              ELSE ScanHeaderTokens_LastGeometry(parts, i + 1, primary, geometry)

\* The `for token in parts` loop over the tokens after the state word.
RECURSIVE ScanHeaderTokens(_, _, _, _)
ScanHeaderTokens(parts, i, primary, geometry) ==
    IF i > Len(parts) THEN [primary |-> primary, geometry |-> geometry]
    ELSE IF parts[i] = STR_primary
         THEN ScanHeaderTokens(parts, i + 1, TRUE, geometry)
         ELSE IF geometry = None /\ is_geometry_token(parts[i])
              THEN ScanHeaderTokens(parts, i + 1, primary, Some(parts[i]))
              ELSE ScanHeaderTokens(parts, i + 1, primary, geometry)

parse_header(line) ==
    LET parts == split_whitespace(line) IN
    IF Len(parts) < 2 THEN None
    ELSE IF parts[2] # STR_connected /\ parts[2] # STR_disconnected THEN None
    ELSE LET rest == ScanHeaderTokens(parts, 3, FALSE, None) IN
         Some([name |-> parts[1],
               state |-> IF parts[2] = STR_connected THEN "Connected" ELSE "Disconnected",
               primary |-> rest.primary,
               geometry |-> rest.geometry])

\* ------------------------------------------------------------------
\* Section segmenter.  A scan state is the pair of the code's locals
\* `sections` and `current`.
NewSection(header, line) ==
    [name |-> header.name, state |-> header.state, primary |-> header.primary,
     geometry |-> header.geometry, lines |-> <<line>>]

\* The `if let Some(section) = current.take() { sections.push(section) }` of
\* the loop body and of the end of the function.
PushCurrent(secs, cur) == IF IsSome(cur) THEN Append(secs, Unwrap(cur)) ELSE secs

\* SectionsStep opening a section on a header without emitting the open one.
SectionsStep_NoEmit(secs, cur, line) ==
    LET header == parse_header(line) IN
    IF IsSome(header)
    THEN [sections |-> secs, current |-> Some(NewSection(Unwrap(header), line))]
    ELSE IF IsSome(cur)
         THEN [sections |-> secs,
               current |-> Some([Unwrap(cur) EXCEPT !.lines = Append(@, line)])]
         ELSE [sections |-> secs, current |-> cur]

\* One iteration of `for line in verbose.lines()`.
SectionsStep(secs, cur, line) ==
    LET header == parse_header(line) IN
    IF IsSome(header)
    THEN [sections |-> PushCurrent(secs, cur),
          current |-> Some(NewSection(Unwrap(header), line))]
    ELSE IF IsSome(cur)
         THEN [sections |-> secs,
               current |-> Some([Unwrap(cur) EXCEPT !.lines = Append(@, line)])]
         ELSE [sections |-> secs, current |-> cur]

RECURSIVE SectionsLoop(_, _, _, _)
SectionsLoop(ls, i, secs, cur) ==
    IF i > Len(ls) THEN PushCurrent(secs, cur)
    ELSE LET st == SectionsStep(secs, cur, ls[i]) IN
         SectionsLoop(ls, i + 1, st.sections, st.current)

parse_sections(text) == SectionsLoop(lines(text), 1, <<>>, None)

\* Inputs of the segmenter: texts of at most MaxLines lines drawn from
\* SegLinePool, every line ended by "\n" or the last one left unended.
MaxLines == 4
\* "A connected primary 7x7+0+0"
LINE_HeaderA == <<"A", " ", "c", "o", "n", "n", "e", "c", "t", "e", "d", " ", "p", "r", "i", "m", "a", "r", "y", " ", "7", "x", "7", "+", "0", "+", "0">>
\* "B disconnected"
LINE_HeaderB == <<"B", " ", "d", "i", "s", "c", "o", "n", "n", "e", "c", "t", "e", "d">>
\* "\tbody"
LINE_Body == <<"\t", "b", "o", "d", "y">>
\* "connected A": the state word is not the second token
LINE_NotHeader == <<"c", "o", "n", "n", "e", "c", "t", "e", "d", " ", "A">>
\* "B Connected": the state word in the wrong case
LINE_WrongCase == <<"B", " ", "C", "o", "n", "n", "e", "c", "t", "e", "d">>
LINE_Blank == <<>>
SegLinePool == {LINE_HeaderA, LINE_HeaderB, LINE_Body, LINE_NotHeader, LINE_WrongCase, LINE_Blank}

RECURSIVE JoinLines(_)
JoinLines(ls) == IF ls = <<>> THEN <<>> ELSE Head(ls) \o <<"\n">> \o JoinLines(Tail(ls))
DropLast(s) == SubSeq(s, 1, Len(s) - 1)
SegTexts(n) ==
    LET ended == {JoinLines(ls) : ls \in SeqsUpTo(SegLinePool, n)}
    IN ended \cup {DropLast(t) : t \in ended \ {<<>>}}

\* One iteration of the loop of parse_sections.
ScanLine ==
    /\ segPc = "scan"
    /\ lineNo < Len(lines(verbose))
    /\ LET st == SectionsStep(sections, current, lines(verbose)[lineNo + 1]) IN
           sections' = st.sections /\ current' = st.current
    /\ lineNo' = lineNo + 1
    /\ UNCHANGED <<verbose, segPc, notSeg>>

\* The end of parse_sections: the open section, if any, is emitted.
FinishScan ==
    /\ segPc = "scan"
    /\ lineNo = Len(lines(verbose))
    /\ sections' = PushCurrent(sections, current)
    /\ current' = None
    /\ segPc' = "done"
    /\ UNCHANGED <<verbose, lineNo, notSeg>>


\* ------------------------------------------------------------------
\* EDID hex capture.
STR_EDID == <<"E", "D", "I", "D", ":">>

\* The test `.all(|ch| ch.is_ascii_hexdigit() || ch.is_ascii_whitespace())`.
AllHexOrSpace(s) ==
    \A i \in 1..Len(s) : is_ascii_hexdigit(s[i]) \/ is_ascii_whitespace(s[i])

\* EdidStep appending the whole trimmed line, whitespace included.
EdidStep_KeepWhitespace(cap, acc, line) ==
    LET trimmed == trim(line) IN
    IF starts_with(trimmed, STR_EDID) THEN [capture |-> TRUE, hex |-> acc, brk |-> FALSE]
    ELSE IF ~cap THEN [capture |-> cap, hex |-> acc, brk |-> FALSE]
    ELSE IF trimmed = <<>> THEN [capture |-> cap, hex |-> acc, brk |-> TRUE]
    ELSE IF AllHexOrSpace(trimmed)
         THEN [capture |-> cap, hex |-> acc \o trimmed, brk |-> FALSE]
         ELSE [capture |-> cap, hex |-> acc, brk |-> TRUE]

\* One iteration of `for line in &section.lines`; brk tells that it ended in
\* `break`.
EdidStep(cap, acc, line) ==
    LET trimmed == trim(line) IN
    IF starts_with(trimmed, STR_EDID) THEN [capture |-> TRUE, hex |-> acc, brk |-> FALSE]
    ELSE IF ~cap THEN [capture |-> cap, hex |-> acc, brk |-> FALSE]
    ELSE IF trimmed = <<>> THEN [capture |-> cap, hex |-> acc, brk |-> TRUE]
    ELSE IF AllHexOrSpace(trimmed)
         THEN [capture |-> cap, hex |-> acc \o SelectSeq(trimmed, is_ascii_hexdigit),
               brk |-> FALSE]
         ELSE [capture |-> cap, hex |-> acc, brk |-> TRUE]

\* The end of extract_edid_hex.
EdidReturnValue(acc) == IF acc = <<>> THEN None ELSE Some(acc)

RECURSIVE EdidLoop(_, _, _, _)
EdidLoop(ls, i, cap, acc) ==
    IF i > Len(ls) THEN EdidReturnValue(acc)
    ELSE LET st == EdidStep(cap, acc, ls[i]) IN
         IF st.brk THEN EdidReturnValue(st.hex)
         ELSE EdidLoop(ls, i + 1, st.capture, st.hex)

extract_edid_hex(section) == EdidLoop(section.lines, 1, FALSE, <<>>)

\* Inputs of the capture: the lines of a section, that is a header line
\* followed by at most MaxBodyLines lines that are not headers.
MaxBodyLines == 4
\* "X connected"
LINE_HeaderX == <<"X", " ", "c", "o", "n", "n", "e", "c", "t", "e", "d">>
\* "\tEDID:"
LINE_EdidLabel == <<"\t", "E", "D", "I", "D", ":">>
\* "  0f"
LINE_Hex == <<" ", " ", "0", "f">>
\* "a B": hex digits around a space
LINE_HexSpaced == <<"a", " ", "B">>
\* "0<VT>f": hex digits around a vertical tab
LINE_HexVt == <<"0", "VT", "f">>
\* "id: 5"
LINE_Other == <<"i", "d", ":", " ", "5">>
EdidLinePool == {LINE_EdidLabel, LINE_Hex, LINE_HexSpaced, LINE_HexVt, LINE_Other, LINE_Blank}
\* The section of the documented example.
EdidExampleLines ==
    << LINE_HeaderX,
       <<"E", "D", "I", "D", ":">>,
       <<" ", " ", "0", "0", "f", "f", "f", "f", "f", "f">>,
       <<" ", " ", "0", "0", "1", "1", "2", "2", "3", "3">>,
       <<>>,
       <<"C", "O", "N", "N", "E", "C", "T", "O", "R", "_", "I", "D", ":", " ", "5">> >>
EdidSections(n) ==
    {<<LINE_HeaderX>> \o body : body \in SeqsUpTo(EdidLinePool, n)} \cup {EdidExampleLines}

\* One iteration of the loop of extract_edid_hex.
EdidScanLine ==
    /\ edidPc = "scan"
    /\ edidIdx < Len(secLines)
    /\ LET st == EdidStep(capture, hex, secLines[edidIdx + 1]) IN
           /\ capture' = st.capture
           /\ hex' = st.hex
           /\ edidPc' = IF st.brk THEN "break" ELSE "scan"
    /\ edidIdx' = edidIdx + 1
    /\ UNCHANGED <<secLines, edidResult, notEdid>>

\* The end of extract_edid_hex, after the last line or after `break`.
EdidReturn ==
    /\ edidPc = "break" \/ (edidPc = "scan" /\ edidIdx = Len(secLines))
    /\ edidResult' = EdidReturnValue(hex)
    /\ edidPc' = "done"
    /\ UNCHANGED <<secLines, edidIdx, capture, hex, notEdid>>

\* ------------------------------------------------------------------
\* Serial number lookup in the decoder's report.

\* str::contains
contains(s, sub) ==
    \E i \in 0..(Len(s) - Len(sub)) : SubSeq(s, i + 1, i + Len(sub)) = sub

\* str::find(char): the zero-based offset of the first occurrence.
find(s, ch) ==
    IF \E i \in 1..Len(s) : s[i] = ch
    THEN Some(MinOf({i \in 1..Len(s) : s[i] = ch}) - 1)
    ELSE None

\* line[from..] and line[from..to] with the code's zero-based offsets.
SliceFrom(s, from) == SubSeq(s, from + 1, Len(s))
Slice(s, from, to) == SubSeq(s, from + 1, to)

extract_between_quotes(line, label) ==
    IF ~contains(line, label) THEN None
    ELSE LET start == find(line, "'") IN
    IF start = None THEN None
    ELSE LET end == find(SliceFrom(line, Unwrap(start) + 1), "'") IN
    IF end = None THEN None
    ELSE Some(trim(Slice(line, Unwrap(start) + 1, Unwrap(start) + 1 + Unwrap(end))))

extract_after_colon(line, label) ==
    IF ~contains(line, label) THEN None
    ELSE LET idx == find(line, ":") IN
    IF idx = None THEN None
    ELSE Some(trim(SliceFrom(line, Unwrap(idx) + 1)))

STR_DisplayProductSerialNumber == <<"D", "i", "s", "p", "l", "a", "y", " ", "P", "r", "o", "d", "u", "c", "t", " ", "S", "e", "r", "i", "a", "l", " ", "N", "u", "m", "b", "e", "r", ":">>
STR_SerialNumber == <<"S", "e", "r", "i", "a", "l", " ", "N", "u", "m", "b", "e", "r", ":">>
STR_AlphanumericDataString == <<"A", "l", "p", "h", "a", "n", "u", "m", "e", "r", "i", "c", " ", "D", "a", "t", "a", " ", "S", "t", "r", "i", "n", "g", ":">>

\* The three `for line in decoded.lines()` loops of extract_serial.
RECURSIVE ProductSerialLoop(_, _)
ProductSerialLoop(ls, i) ==
    IF i > Len(ls) THEN None
    ELSE LET value == extract_between_quotes(ls[i], STR_DisplayProductSerialNumber) IN
         IF IsSome(value) /\ Unwrap(value) # <<>> THEN value
         ELSE ProductSerialLoop(ls, i + 1)
RECURSIVE SerialNumberLoop(_, _)
SerialNumberLoop(ls, i) ==
    IF i > Len(ls) THEN None
    ELSE LET value == extract_after_colon(ls[i], STR_SerialNumber) IN
         IF IsSome(value) /\ Unwrap(value) # <<>> THEN value
         ELSE SerialNumberLoop(ls, i + 1)
RECURSIVE DataStringLoop(_, _)
DataStringLoop(ls, i) ==
    IF i > Len(ls) THEN None
    ELSE LET value == extract_between_quotes(ls[i], STR_AlphanumericDataString) IN
         IF IsSome(value) /\ trim(Unwrap(value)) # <<>> THEN Some(trim(Unwrap(value)))
         ELSE DataStringLoop(ls, i + 1)

\* extract_serial trying `Serial Number:` before the quoted product serial.
extract_serial_ColonFirst(report) ==
    LET ls == lines(report) IN
    IF IsSome(SerialNumberLoop(ls, 1)) THEN SerialNumberLoop(ls, 1)
    ELSE IF IsSome(ProductSerialLoop(ls, 1)) THEN ProductSerialLoop(ls, 1)
    ELSE DataStringLoop(ls, 1)

extract_serial(report) ==
    LET ls == lines(report) IN
    IF IsSome(ProductSerialLoop(ls, 1)) THEN ProductSerialLoop(ls, 1)
    ELSE IF IsSome(SerialNumberLoop(ls, 1)) THEN SerialNumberLoop(ls, 1)
    ELSE DataStringLoop(ls, 1)

\* Inputs of the lookup: reports of at most MaxReportLines lines.
MaxReportLines == 3
\* "Serial Number: ABC123"
REP_Serial == STR_SerialNumber \o <<" ", "A", "B", "C", "1", "2", "3">>
\* "Display Product Serial Number: 'XYZ999'"
REP_Product == STR_DisplayProductSerialNumber \o <<" ", "'", "X", "Y", "Z", "9", "9", "9", "'">>
\* "Display Product Serial Number: ''": an empty quoted value
REP_ProductEmpty == STR_DisplayProductSerialNumber \o <<" ", "'", "'">>
\* "Display Product Serial Number: 'Q": no closing quote
REP_ProductOpen == STR_DisplayProductSerialNumber \o <<" ", "'", "Q">>
\* "Serial Number:  ": nothing after the colon
REP_SerialEmpty == STR_SerialNumber \o <<" ", " ">>
\* "Alphanumeric Data String: ' abc '"
REP_DataString == STR_AlphanumericDataString \o <<" ", "'", " ", "a", "b", "c", " ", "'">>
\* "Manufacturer: 'ACME'": a quoted value under no serial label
REP_Unrelated == <<"M", "a", "n", "u", "f", "a", "c", "t", "u", "r", "e", "r", ":", " ", "'", "A", "C", "M", "E", "'">>
ReportLinePool ==
    {REP_Serial, REP_Product, REP_ProductEmpty, REP_ProductOpen, REP_SerialEmpty,
     REP_DataString, REP_Unrelated}
Reports(n) == {JoinLines(ls) : ls \in SeqsUpTo(ReportLinePool, n)}

ExtractSerial ==
    /\ serialPc = "call"
    /\ serialResult' = extract_serial(decoded)
    /\ serialPc' = "done"
    /\ UNCHANGED <<decoded, notSerial>>

\* ------------------------------------------------------------------
\* Hex codec.  A Result<T, String> is a record: ok tells which variant,
\* value is the Ok value, err the pieces of the Err message.
Ok(v) == [ok |-> TRUE, value |-> v, err |-> <<>>]
Err(msg) == [ok |-> FALSE, value |-> <<>>, err |-> msg]

\* char::to_digit(16)
DigitChars == <<"0", "1", "2", "3", "4", "5", "6", "7", "8", "9">>
LowerAF == <<"a", "b", "c", "d", "e", "f">>
UpperAF == <<"A", "B", "C", "D", "E", "F">>
PositionIn(chars, ch) == CHOOSE i \in 1..Len(chars) : chars[i] = ch
to_digit16(ch) ==
    IF \E i \in 1..10 : DigitChars[i] = ch THEN Some(PositionIn(DigitChars, ch) - 1)
    ELSE IF \E i \in 1..6 : LowerAF[i] = ch THEN Some(PositionIn(LowerAF, ch) + 9)
    ELSE IF \E i \in 1..6 : UpperAF[i] = ch THEN Some(PositionIn(UpperAF, ch) + 9)
    ELSE None

\* hex_pair_to_byte with the nibbles the other way round.
hex_pair_to_byte_LowFirst(hi, lo) ==
    IF to_digit16(hi) = None THEN None
    ELSE IF to_digit16(lo) = None THEN None
    ELSE Some((Unwrap(to_digit16(lo)) * 16 + Unwrap(to_digit16(hi))) % 256)

\* (high << 4) | low on u8
hex_pair_to_byte(hi, lo) ==
    IF to_digit16(hi) = None THEN None
    ELSE IF to_digit16(lo) = None THEN None
    ELSE Some((Unwrap(to_digit16(hi)) * 16 + Unwrap(to_digit16(lo))) % 256)

\* The `while index < chars.len()` loop; index is zero-based.
RECURSIVE HexPairsLoop(_, _, _)
HexPairsLoop(chars, index, bytes) ==
    IF index >= Len(chars) THEN Ok(bytes)
    ELSE LET value == hex_pair_to_byte(chars[index + 1], chars[index + 2]) IN
         IF value = None
         THEN Err(<<"invalid hex pair: ", chars[index + 1], chars[index + 2]>>)
         ELSE HexPairsLoop(chars, index + 2, Append(bytes, Unwrap(value)))

hex_to_bytes(text) ==
    LET chars == SelectSeq(text, LAMBDA ch : ~is_ascii_whitespace(ch)) IN
    IF Len(chars) % 2 # 0 THEN Err(<<"edid hex length is not even">>)
    ELSE HexPairsLoop(chars, 0, <<>>)

\* Inputs of the codec: every string over HexInputChars of length at most
\* MaxHexLen.
MaxHexLen == 4
HexInputChars == {"0", "9", "a", "F", "g", " ", "VT"}

HexToBytes ==
    /\ hexPc = "call"
    /\ hexResult' = hex_to_bytes(hexText)
    /\ hexPc' = "done"
    /\ UNCHANGED <<hexText, notHexc>>

\* ------------------------------------------------------------------
\* Map commands: parse_map_flags, then output_map_entry once per section.
STR_DashDash == <<"-", "-">>
ARG_filtered == <<"-", "-", "f", "i", "l", "t", "e", "r", "e", "d">>
ARG_keys == <<"-", "-", "k", "e", "y", "s">>
ARG_values == <<"-", "-", "v", "a", "l", "u", "e", "s">>
MSG_cannot_combine == "cannot combine --keys with --values"
MSG_unknown_option == "unknown option: "

\* MapFlags::default()
DefaultMapFlags == [filtered |-> FALSE, keys |-> FALSE, values |-> FALSE]

\* The result of parse_map_flags: ok and flags are the Result; rest is what
\* the argument iterator still holds when the function returns.
FlagsOk(fl, rest) == [ok |-> TRUE, flags |-> fl, rest |-> rest, err |-> <<>>]
FlagsErr(msg, rest) == [ok |-> FALSE, flags |-> DefaultMapFlags, rest |-> rest, err |-> msg]

\* ParseFlagsLoop setting `keys` without looking at `values`.
RECURSIVE ParseFlagsLoop_NoKeysCheck(_, _)
ParseFlagsLoop_NoKeysCheck(argv, fl) ==
    IF argv = <<>> THEN FlagsOk(fl, argv)
    ELSE IF ~starts_with(Head(argv), STR_DashDash) THEN FlagsOk(fl, argv)
    ELSE LET arg == Head(argv)
             rest == Tail(argv)
         IN CASE arg = ARG_filtered ->
                     ParseFlagsLoop_NoKeysCheck(rest, [fl EXCEPT !.filtered = TRUE])
              [] arg = ARG_keys ->
                     ParseFlagsLoop_NoKeysCheck(rest, [fl EXCEPT !.keys = TRUE])
              [] arg = ARG_values ->
                     IF fl.keys THEN FlagsErr(<<MSG_cannot_combine>>, rest)
                     ELSE ParseFlagsLoop_NoKeysCheck(rest, [fl EXCEPT !.values = TRUE])
              [] OTHER -> FlagsErr(<<MSG_unknown_option, arg>>, rest)

\* The `while let Some(arg) = args.peek()` loop of parse_map_flags.
RECURSIVE ParseFlagsLoop(_, _)
ParseFlagsLoop(argv, fl) ==
    IF argv = <<>> THEN FlagsOk(fl, argv)
    ELSE IF ~starts_with(Head(argv), STR_DashDash) THEN FlagsOk(fl, argv)
    ELSE LET arg == Head(argv)
             rest == Tail(argv)
         IN CASE arg = ARG_filtered -> ParseFlagsLoop(rest, [fl EXCEPT !.filtered = TRUE])
              [] arg = ARG_keys ->
                     IF fl.values THEN FlagsErr(<<MSG_cannot_combine>>, rest)
                     ELSE ParseFlagsLoop(rest, [fl EXCEPT !.keys = TRUE])
              [] arg = ARG_values ->
                     IF fl.keys THEN FlagsErr(<<MSG_cannot_combine>>, rest)
                     ELSE ParseFlagsLoop(rest, [fl EXCEPT !.values = TRUE])
              [] OTHER -> FlagsErr(<<MSG_unknown_option, arg>>, rest)

parse_map_flags(argv) == ParseFlagsLoop(argv, DefaultMapFlags)

\* should_skip_map_value testing the value untrimmed.
should_skip_map_value_NoTrim(value, fl) ==
    IF ~(fl.filtered \/ fl.values) THEN FALSE ELSE value = <<>>

should_skip_map_value(value, fl) ==
    IF ~(fl.filtered \/ fl.values) THEN FALSE ELSE trim(value) = <<>>

\* output_map_entry printing a value whether or not it was seen before.
output_map_entry_NoDedup(name, value, fl, seen) ==
    IF should_skip_map_value(value, fl) THEN [printed |-> <<>>, seen |-> seen]
    ELSE IF fl.keys THEN [printed |-> <<name>>, seen |-> seen]
    ELSE IF fl.values THEN [printed |-> <<value>>, seen |-> seen \cup {value}]
    ELSE [printed |-> <<name \o <<"=">> \o value>>, seen |-> seen]

\* output_map_entry: the lines it prints and the value it leaves in
\* seen_values.
output_map_entry(name, value, fl, seen) ==
    IF should_skip_map_value(value, fl) THEN [printed |-> <<>>, seen |-> seen]
    ELSE IF fl.keys THEN [printed |-> <<name>>, seen |-> seen]
    ELSE IF fl.values
         THEN [printed |-> IF value \notin seen THEN <<value>> ELSE <<>>,
               seen |-> seen \cup {value}]
    ELSE [printed |-> <<name \o <<"=">> \o value>>, seen |-> seen]

\* Inputs of a map command: at most MaxArgs arguments after the command
\* word, and at most MaxEntries sections, the i-th named "DP-i", each with the
\* value the command computes for it.
MaxArgs == 3
MaxEntries == 3
\* "--bogus": an option no map command knows
ARG_bogus == <<"-", "-", "b", "o", "g", "u", "s">>
\* "x": an argument that is no option
ARG_positional == <<"x">>
ArgPool == {ARG_filtered, ARG_keys, ARG_values, ARG_bogus, ARG_positional}
ValuePool == {<<>>, <<" ">>, <<"a">>, <<"b">>}
EntryName(i) == <<"D", "P", "-", DigitChars[i + 1]>>

\* run: `let flags = parse_map_flags(&mut args, false)?;`
ParseMapFlags ==
    /\ mapPc = "flags"
    /\ LET r == parse_map_flags(args) IN
           /\ args' = r.rest
           /\ flags' = r.flags
           /\ mapPc' = IF r.ok THEN "loop" ELSE "exit"
           /\ runResult' = IF r.ok THEN runResult ELSE Some(Err(r.err))
    /\ UNCHANGED <<entries, seen_values, stdout, notMap>>

\* run: one iteration of `for section in &sections`, with the value computed
\* for the section.
OutputEntry ==
    /\ mapPc = "loop"
    /\ Len(entries) < MaxEntries
    /\ \E value \in ValuePool :
          LET name == EntryName(Len(entries) + 1)
              r == output_map_entry(name, value, flags, seen_values)
          IN /\ entries' = Append(entries, [name |-> name, value |-> value])
             /\ stdout' = stdout \o r.printed
             /\ seen_values' = r.seen
    /\ UNCHANGED <<args, flags, mapPc, runResult, notMap>>

\* run: the loop is over and run returns Ok(()).
FinishMap ==
    /\ mapPc = "loop"
    /\ mapPc' = "exit"
    /\ runResult' = Some(Ok(<<>>))
    /\ UNCHANGED <<args, flags, entries, seen_values, stdout, notMap>>

\* ------------------------------------------------------------------
\* run and the functions it calls.  An element of stdout is what one println!
\* prints, without its line end.  What the world outside answers (standard
\* input, xrandr, edid-decode) is an argument of the function that asks.
\* "Usage:", the first word of the text print_usage prints
STR_Usage == <<"U", "s", "a", "g", "e", ":">>
STR_CONNECTOR_ID == <<"C", "O", "N", "N", "E", "C", "T", "O", "R", "_", "I", "D", ":">>
STR_Monitors == <<"M", "o", "n", "i", "t", "o", "r", "s", ":">>
ARG_connected == <<"-", "-", "c", "o", "n", "n", "e", "c", "t", "e", "d">>
\* The option words of the xrandr command lines.
OPT ==
    [output |-> <<"-", "-", "o", "u", "t", "p", "u", "t">>,
     primary |-> <<"-", "-", "p", "r", "i", "m", "a", "r", "y">>,
     auto |-> <<"-", "-", "a", "u", "t", "o">>,
     off |-> <<"-", "-", "o", "f", "f">>,
     right_of |-> <<"-", "-", "r", "i", "g", "h", "t", "-", "o", "f">>]

\* DisplayState::as_str
as_str(state) == IF state = "Connected" THEN STR_connected ELSE STR_disconnected

\* get_verbose_text.  src tells whether standard input is a terminal, how the
\* read or the xrandr run ended, and the text obtained.
get_verbose_text(src) ==
    IF ~src.terminal
    THEN IF src.status = "read_failed" THEN Err(<<"failed to read stdin">>)
         ELSE IF trim(src.text) = <<>> THEN Err(<<"stdin supplied but empty">>)
         ELSE Ok(src.text)
    ELSE IF src.status = "spawn_failed" THEN Err(<<"failed to run xrandr --verbose">>)
         ELSE IF src.status = "exit_failed" THEN Err(<<"xrandr --verbose exited with failure">>)
         ELSE Ok(src.text)

find_section(secs, name) ==
    LET hits == {i \in 1..Len(secs) : secs[i].name = name}
    IN IF hits = {} THEN None ELSE Some(secs[MinOf(hits)])

\* [String]::join("\n")
join(ls) == IF ls = <<>> THEN <<>> ELSE DropLast(JoinLines(ls))

\* escape_multiline: a backslash becomes two, a line feed becomes `\n`; the
\* text is rewritten from one such character to the next.
RECURSIVE escape_multiline(_)
escape_multiline(text) ==
    LET special == {i \in 1..Len(text) : text[i] \in {"\\", "\n"}} IN
    IF special = {} THEN text
    ELSE LET i == MinOf(special) IN
         SubSeq(text, 1, i - 1)
             \o (IF text[i] = "\n" THEN <<"\\", "n">> ELSE <<"\\", "\\">>)
             \o escape_multiline(SubSeq(text, i + 1, Len(text)))

\* ConnectorLoop ending at the first line with the label, whatever follows
\* the label.
RECURSIVE ConnectorLoop_StopAtLabel(_, _)
ConnectorLoop_StopAtLabel(ls, i) ==
    IF i > Len(ls) THEN None
    ELSE LET trimmed == trim(ls[i]) IN
         IF starts_with(trimmed, STR_CONNECTOR_ID)
         THEN IF trim(SliceFrom(trimmed, Len(STR_CONNECTOR_ID))) # <<>>
              THEN Some(trim(SliceFrom(trimmed, Len(STR_CONNECTOR_ID))))
              ELSE None
         ELSE ConnectorLoop_StopAtLabel(ls, i + 1)

\* The `for line in &section.lines` loop of extract_connector_id.
RECURSIVE ConnectorLoop(_, _)
ConnectorLoop(ls, i) ==
    IF i > Len(ls) THEN None
    ELSE LET trimmed == trim(ls[i]) IN
         IF /\ starts_with(trimmed, STR_CONNECTOR_ID)
            /\ trim(SliceFrom(trimmed, Len(STR_CONNECTOR_ID))) # <<>>
         THEN Some(trim(SliceFrom(trimmed, Len(STR_CONNECTOR_ID))))
         ELSE ConnectorLoop(ls, i + 1)

extract_connector_id(section) == ConnectorLoop(section.lines, 1)

\* resolve_monitors_text.  lm is how `xrandr --listmonitors` ends and what it
\* prints.
resolve_monitors_text(provided, lm) ==
    IF IsSome(provided)
    THEN IF trim(Unwrap(provided)) = <<>> THEN Err(<<"monitor text argument is empty">>)
         ELSE Ok(Unwrap(provided))
    ELSE IF lm.status = "spawn_failed" THEN Err(<<"failed to run xrandr --listmonitors">>)
         ELSE IF lm.status = "exit_failed"
              THEN Err(<<"xrandr --listmonitors exited with failure">>)
         ELSE Ok(lm.text)

\* insert_monitor_line leaving alone a key the map already has.
insert_monitor_line_KeepFirst(map, line) ==
    LET trimmed == trim_end(line)
        parts == split_whitespace(trimmed)
    IN IF trimmed = <<>> \/ parts = <<>> THEN map
       ELSE LET index_part == Head(parts)
                rest == Tail(parts)
            IN IF rest = <<>> THEN map
               ELSE LET name == rest[Len(rest)]
                        colon == find(index_part, ":")
                        index_value == IF colon = None THEN index_part
                                       ELSE Slice(index_part, 0, Unwrap(colon))
                    IN [n \in DOMAIN map \cup {name} |->
                           IF n \in DOMAIN map THEN map[n] ELSE index_value]

\* insert_monitor_line.  A HashMap<String, String> is a function from its keys.
insert_monitor_line(map, line) ==
    LET trimmed == trim_end(line)
        parts == split_whitespace(trimmed)
    IN IF trimmed = <<>> \/ parts = <<>> THEN map
       ELSE LET index_part == Head(parts)
                rest == Tail(parts)
            IN IF rest = <<>> THEN map
               ELSE LET name == rest[Len(rest)]
                        colon == find(index_part, ":")
                        index_value == IF colon = None THEN index_part
                                       ELSE Slice(index_part, 0, Unwrap(colon))
                    IN [n \in DOMAIN map \cup {name} |->
                           IF n = name THEN index_value ELSE map[n]]

\* The `for line in lines` loop of parse_monitor_map.
RECURSIVE MonitorLoop(_, _)
MonitorLoop(ls, map) ==
    IF ls = <<>> THEN map ELSE MonitorLoop(Tail(ls), insert_monitor_line(map, Head(ls)))

parse_monitor_map(text) ==
    LET ls == lines(text) IN
    IF ls = <<>> THEN <<>>
    ELSE IF starts_with(Head(ls), STR_Monitors) THEN MonitorLoop(Tail(ls), <<>>)
    ELSE MonitorLoop(ls, <<>>)

\* decode_edid.  dec is how the edid-decode run ends and the report it
\* prints.
decode_edid(hexstr, dec) ==
    LET bytes == hex_to_bytes(hexstr) IN
    IF ~bytes.ok THEN Err(bytes.err)
    ELSE IF dec.status = "spawn_failed" THEN Err(<<"failed to run edid-decode">>)
    ELSE IF dec.status = "write_failed" THEN Err(<<"failed to write edid to decoder">>)
    ELSE IF dec.status = "wait_failed" THEN Err(<<"failed to read edid-decode output">>)
    ELSE IF dec.status = "exit_failed" THEN Err(<<"edid-decode exited with failure">>)
    ELSE Ok(dec.report)

\* parse_display_names_flags: the first argument that is not --connected
\* ends it with an error.
parse_display_names_flags(argv) ==
    LET unknown == {i \in 1..Len(argv) : argv[i] # ARG_connected} IN
    IF unknown # {} THEN Err(<<MSG_unknown_option, argv[MinOf(unknown)]>>)
    ELSE Ok(argv # <<>>)

\* filtered_display_names keeping every name.
filtered_display_names_KeepAll(secs, exclude) ==
    [i \in 1..Len(secs) |-> secs[i].name]

filtered_display_names(secs, exclude) ==
    SelectSeq([i \in 1..Len(secs) |-> secs[i].name], LAMBDA name : name \notin exclude)

RECURSIVE build_off_args(_)
build_off_args(displays) ==
    IF displays = <<>> THEN <<>>
    ELSE <<OPT.output, Head(displays), OPT.off>> \o build_off_args(Tail(displays))

\* run_xrandr_with_args.  xr is how the xrandr run ends.
run_xrandr_with_args(xr) ==
    IF xr = "spawn_failed" THEN Err(<<"failed to run xrandr">>)
    ELSE IF xr = "exit_failed" THEN Err(<<"xrandr command failed">>)
    ELSE Ok(<<>>)

\* What one command arm of run leaves behind when it returns: the lines
\* printed, the xrandr command lines run, the value returned and, when that is
\* an Err, the function that made it.
Done(out) == [out |-> out, calls |-> <<>>, result |-> Ok(<<>>), failed |-> <<>>]

\* Failed with the error dropped: the arm returns Ok.
Failed_ErrorDropped(op, msg) ==
    [out |-> <<>>, calls |-> <<>>, result |-> Ok(<<>>), failed |-> <<op>>]
Failed(op, msg) ==
    [out |-> <<>>, calls |-> <<>>, result |-> Err(msg), failed |-> <<op>>]
Reconfigured(argv, status) ==
    [out |-> <<>>, calls |-> <<argv>>, result |-> status,
     failed |-> IF status.ok THEN <<>> ELSE <<"run_xrandr_with_args">>]

run_single_display_output(keep, secs, xr) ==
    IF find_section(secs, keep) = None
    THEN Failed("run_single_display_output", <<"display not found: ", keep>>)
    ELSE LET off_targets == filtered_display_names(secs, {keep})
         IN Reconfigured(<<OPT.output, keep, OPT.primary, OPT.auto>>
                             \o build_off_args(off_targets),
                         run_xrandr_with_args(xr))

run_dual_display_output(left, right, secs, xr) ==
    IF left = right
    THEN Failed("run_dual_display_output", <<"left and right displays must be different">>)
    ELSE IF find_section(secs, left) = None
    THEN Failed("run_dual_display_output", <<"display not found: ", left>>)
    ELSE IF find_section(secs, right) = None
    THEN Failed("run_dual_display_output", <<"display not found: ", right>>)
    ELSE LET off_targets == filtered_display_names(secs, {left, right})
         IN Reconfigured(<<OPT.output, left, OPT.primary, OPT.auto,
                           OPT.output, right, OPT.auto, OPT.right_of, left>>
                             \o build_off_args(off_targets),
                         run_xrandr_with_args(xr))

\* The commands that take a display and look up its section first.
SectionCommands ==
    {"display_connected", "display_section", "display_edid", "display_edid_decoded",
     "display_serial", "display_geometry", "display_connector", "display_label_line"}
MapCommands ==
    {"display_connected_map", "display_section_map", "display_serial_map",
     "display_geometry_map", "display_connector_map", "display_monitor_map"}

\* The arms of SectionCommands from the line after find_section on.  An
\* element of stdout being a line without its end, the report of
\* display_edid_decoded is printed without the line feed it ends with.
SectionArm(cmd, display, section, dec) ==
    CASE cmd = "display_connected" -> Done(<<as_str(section.state)>>)
      [] cmd = "display_section" ->
            IF join(section.lines) = <<>> THEN Failed("run", <<"section is empty">>)
            ELSE Done(<<join(section.lines)>>)
      [] cmd \in {"display_edid", "display_edid_decoded", "display_serial"} ->
            LET edid == extract_edid_hex(section) IN
            IF edid = None
            THEN Failed("extract_edid_hex", <<"edid data not available for display: ", display>>)
            ELSE IF cmd = "display_edid" THEN Done(<<Unwrap(edid)>>)
            ELSE LET report == decode_edid(Unwrap(edid), dec) IN
                 IF ~report.ok THEN Failed("decode_edid", report.err)
                 ELSE IF cmd = "display_edid_decoded"
                 THEN Done(<<IF report.value # <<>> /\ report.value[Len(report.value)] = "\n"
                             THEN DropLast(report.value) ELSE report.value>>)
                 ELSE LET serial == extract_serial(report.value) IN
                      IF serial = None
                      THEN Failed("extract_serial", <<"serial not found in edid for: ", display>>)
                      ELSE Done(<<Unwrap(serial)>>)
      [] cmd = "display_geometry" ->
            IF section.state # "Connected"
            THEN Failed("run", <<"display not connected: ", display>>)
            ELSE IF section.geometry = None
            THEN Failed("run", <<"geometry not available for display: ", display>>)
            ELSE Done(<<Unwrap(section.geometry)>>)
      [] cmd = "display_connector" ->
            IF extract_connector_id(section) = None
            THEN Failed("extract_connector_id", <<"connector id not available for: ", display>>)
            ELSE Done(<<Unwrap(extract_connector_id(section))>>)
      [] cmd = "display_label_line" ->
            IF section.lines = <<>>
            THEN Failed("run", <<"label line missing for display: ", display>>)
            ELSE Done(<<Head(section.lines)>>)

\* The arms of run that are no map command, from `match command.as_str()` to
\* the return.  env holds what edid-decode, xrandr and `xrandr
\* --listmonitors` answer if asked.
CommandArm(cmd, argv, secs, env) ==
    CASE cmd \in SectionCommands ->
            IF argv = <<>> THEN Failed("expect_arg", <<"missing argument: display">>)
            ELSE IF find_section(secs, Head(argv)) = None
            THEN Failed("find_section", <<"display not found: ", Head(argv)>>)
            ELSE SectionArm(cmd, Head(argv), Unwrap(find_section(secs, Head(argv))), env.decoder)
      [] cmd = "single_display_output" ->
            IF argv = <<>> THEN Failed("expect_arg", <<"missing argument: display">>)
            ELSE run_single_display_output(Head(argv), secs, env.xrandr)
      [] cmd = "dual_display_output" ->
            IF argv = <<>> THEN Failed("expect_arg", <<"missing argument: left display">>)
            ELSE IF Tail(argv) = <<>>
            THEN Failed("expect_arg", <<"missing argument: right display">>)
            ELSE run_dual_display_output(argv[1], argv[2], secs, env.xrandr)
      [] cmd = "display_names" ->
            LET connected_only == parse_display_names_flags(argv) IN
            IF ~connected_only.ok THEN Failed("parse_display_names_flags", connected_only.err)
            ELSE LET shown == SelectSeq(secs, LAMBDA s :
                                  ~(connected_only.value /\ s.state # "Connected"))
                 IN Done([i \in 1..Len(shown) |-> shown[i].name])
      [] cmd = "display_monitor" ->
            IF argv = <<>> THEN Failed("expect_arg", <<"missing argument: display">>)
            ELSE LET display == Head(argv)
                     monitors_input == IF Tail(argv) = <<>> THEN None ELSE Some(argv[2])
                     monitor_text == resolve_monitors_text(monitors_input, env.monitors)
                 IN IF ~monitor_text.ok THEN Failed("resolve_monitors_text", monitor_text.err)
                    ELSE IF display \notin DOMAIN parse_monitor_map(monitor_text.value)
                    THEN Failed("run", <<"monitor entry not found for display: ", display>>)
                    ELSE Done(<<parse_monitor_map(monitor_text.value)[display]>>)
      [] OTHER -> Failed("run", <<"unknown command: ", cmd>>)

\* The value a map command computes for one section.  call tells whether
\* output_map_entry is called with it, failed names the function whose Err
\* was met on the way.
MapValue(cmd, section, dec, mm) ==
    LET Value(v) == [call |-> TRUE, value |-> v, failed |-> <<>>] IN
    CASE cmd = "display_connected_map" -> Value(as_str(section.state))
      [] cmd = "display_section_map" -> Value(escape_multiline(join(section.lines)))
      [] cmd = "display_serial_map" ->
            LET edid == extract_edid_hex(section) IN
            IF edid = None THEN Value(<<>>)
            ELSE LET report == decode_edid(Unwrap(edid), dec) IN
                 IF ~report.ok
                 THEN [call |-> TRUE, value |-> <<>>, failed |-> <<"decode_edid">>]
                 ELSE IF extract_serial(report.value) = None THEN Value(<<>>)
                 ELSE Value(Unwrap(extract_serial(report.value)))
      [] cmd = "display_geometry_map" ->
            IF section.state # "Connected" \/ section.geometry = None
            THEN [call |-> FALSE, value |-> <<>>, failed |-> <<>>]
            ELSE IF section.primary
            THEN Value(STR_primary \o <<",">> \o Unwrap(section.geometry))
            ELSE Value(Unwrap(section.geometry))
      [] cmd = "display_connector_map" ->
            IF extract_connector_id(section) = None THEN Value(<<>>)
            ELSE Value(Unwrap(extract_connector_id(section)))
      [] cmd = "display_monitor_map" ->
            IF section.name \in DOMAIN mm THEN Value(mm[section.name]) ELSE Value(<<>>)

\* Inputs of run.  The verbose text is made of at most MaxDisplays blocks, or
\* of all three blocks in any order:
\* display A (connected, primary, with a geometry, a two-digit EDID payload
\* and a connector id), display X (connected, with an EDID payload of three
\* digits), display B (disconnected, a header line only).
MaxDisplays == 2
RunBlocks ==
    { <<LINE_HeaderA, LINE_EdidLabel, <<"\t", "\t", "0", "f">>,
        <<"\t">> \o STR_CONNECTOR_ID \o <<" ", "5">> >>,
      <<LINE_HeaderX, LINE_EdidLabel, <<"\t", "\t", "0", "f", "0">> >>,
      <<LINE_HeaderB>> }
RECURSIVE Flatten(_)
Flatten(ss) == IF ss = <<>> THEN <<>> ELSE Head(ss) \o Flatten(Tail(ss))
VerboseTexts(n) ==
    {JoinLines(Flatten(bs)) :
        bs \in SeqsUpTo(RunBlocks, n) \cup
                {p \in SeqsUpTo(RunBlocks, Cardinality(RunBlocks)) :
                    {p[i] : i \in 1..Len(p)} = RunBlocks}}
\* Standard input holding a text or blanks or failing to be read; xrandr
\* printing a text or failing.
VerboseSources(n) ==
    {[terminal |-> t, status |-> "ok", text |-> v] : t \in BOOLEAN, v \in VerboseTexts(n)}
    \cup {[terminal |-> FALSE, status |-> "ok", text |-> <<" ", "\n">>],
          [terminal |-> FALSE, status |-> "read_failed", text |-> <<>>],
          [terminal |-> TRUE, status |-> "spawn_failed", text |-> <<>>],
          [terminal |-> TRUE, status |-> "exit_failed", text |-> <<>>]}
\* edid-decode failing at each of its steps, or printing a report with a
\* serial number or one without.
DecoderOutcomes ==
    {[status |-> s, report |-> <<>>] :
        s \in {"spawn_failed", "write_failed", "wait_failed", "exit_failed"}}
    \cup {[status |-> "ok", report |-> JoinLines(<<r>>)] : r \in {REP_Product, REP_Unrelated}}
XrandrOutcomes == {"ok", "spawn_failed", "exit_failed"}
\* "Monitors: 1\n 0: +*A A\n"
MONITORS_TEXT ==
    STR_Monitors \o <<" ", "1", "\n", " ", "0", ":", " ", "+", "*", "A", " ", "A", "\n">>
ListMonitorsOutcomes ==
    {[status |-> "spawn_failed", text |-> <<>>], [status |-> "exit_failed", text |-> <<>>],
     [status |-> "ok", text |-> MONITORS_TEXT]}
\* The first argument: none, a help word, a command, a word that is none.
CommandWords ==
    {None} \cup {Some(c) : c \in SectionCommands \cup MapCommands \cup
                     {"single_display_output", "dual_display_output", "display_names",
                      "display_monitor", "help", "frobnicate"}}
\* The arguments after it.
RunArgLists ==
    { <<>>, << <<"A">> >>, << <<"X">> >>, << <<"B">> >>,
      << <<"A">>, <<"X">> >>, << <<"A">>, <<"A">> >>, << <<"X">>, <<"B">> >>,
      << <<"A">>, MONITORS_TEXT >>, << <<"X">>, MONITORS_TEXT >>, << <<"A">>, <<" ">> >>,
      <<MONITORS_TEXT>>, <<ARG_keys>>, <<ARG_values>>, <<ARG_filtered>>,
      <<ARG_keys, ARG_values>>, <<ARG_keys, MONITORS_TEXT>>, <<ARG_connected>>,
      <<ARG_bogus>> }
\* The answers a step may get: all of S if it asks, one of them if it does
\* not.
Consulted(S, asks) == IF asks THEN S ELSE {CHOOSE x \in S : TRUE}

\* run, lines 16-30: the command word, the help words, get_verbose_text and
\* parse_sections.
RunStart ==
    /\ runPc = "start"
    /\ IF command = None \/ Unwrap(command) \in {"--help", "-h", "help"}
       THEN /\ stdout' = <<STR_Usage>>
            /\ runResult' = Some(Ok(<<>>))
            /\ runPc' = "exit"
            /\ UNCHANGED <<runSections, errLog>>
       ELSE \E src \in VerboseSources(MaxDisplays) :
               LET text == get_verbose_text(src) IN
               IF text.ok
               THEN /\ runSections' = parse_sections(text.value)
                    /\ runPc' = "dispatch"
                    /\ UNCHANGED <<stdout, runResult, errLog>>
               ELSE /\ errLog' = Append(errLog, [op |-> "get_verbose_text", outLen |-> Len(stdout)])
                    /\ runResult' = Some(Err(text.err))
                    /\ runPc' = "exit"
                    /\ UNCHANGED <<stdout, runSections>>
    /\ UNCHANGED <<command, args, flags, entries, seen_values, monitor_map, secIdx,
                   xrandr_calls, notRun>>

\* run: an arm that is no map command, from the match to the return.
RunCommand ==
    /\ runPc = "dispatch"
    /\ Unwrap(command) \notin MapCommands
    /\ \E dec \in Consulted(DecoderOutcomes,
                            Unwrap(command) \in {"display_edid_decoded", "display_serial"}),
          xr \in Consulted(XrandrOutcomes,
                           Unwrap(command) \in {"single_display_output", "dual_display_output"}),
          lm \in Consulted(ListMonitorsOutcomes, Unwrap(command) = "display_monitor") :
          LET r == CommandArm(Unwrap(command), args, runSections,
                              [decoder |-> dec, xrandr |-> xr, monitors |-> lm])
          IN /\ stdout' = stdout \o r.out
             /\ xrandr_calls' = xrandr_calls \o r.calls
             /\ runResult' = Some(r.result)
             /\ errLog' = errLog \o [i \in 1..Len(r.failed) |->
                                        [op |-> r.failed[i], outLen |-> Len(stdout)]]
    /\ runPc' = "exit"
    /\ UNCHANGED <<command, args, runSections, flags, entries, seen_values, monitor_map,
                   secIdx, notRun>>

\* run: a map command from parse_map_flags to the loop; display_monitor_map
\* takes the monitor text on the way.
RunMapBegin ==
    /\ runPc = "dispatch"
    /\ Unwrap(command) \in MapCommands
    /\ \E lm \in Consulted(ListMonitorsOutcomes, Unwrap(command) = "display_monitor_map") :
          LET parsed == parse_map_flags(args)
              monitors_input == IF parsed.rest = <<>> THEN None ELSE Some(Head(parsed.rest))
              monitor_text == IF Unwrap(command) = "display_monitor_map"
                              THEN resolve_monitors_text(monitors_input, lm)
                              ELSE Ok(<<>>)
              failed == IF ~parsed.ok THEN <<"parse_map_flags">>
                        ELSE IF ~monitor_text.ok THEN <<"resolve_monitors_text">>
                        ELSE <<>>
          IN /\ flags' = parsed.flags
             /\ args' = IF parsed.ok /\ Unwrap(command) = "display_monitor_map"
                           /\ parsed.rest # <<>>
                        THEN Tail(parsed.rest) ELSE parsed.rest
             /\ monitor_map' = IF parsed.ok /\ monitor_text.ok
                               THEN parse_monitor_map(monitor_text.value) ELSE monitor_map
             /\ errLog' = errLog \o [i \in 1..Len(failed) |->
                                        [op |-> failed[i], outLen |-> Len(stdout)]]
             /\ runResult' = IF ~parsed.ok THEN Some(Err(parsed.err))
                             ELSE IF ~monitor_text.ok THEN Some(Err(monitor_text.err))
                             ELSE runResult
             /\ runPc' = IF failed = <<>> THEN "loop" ELSE "exit"
    /\ UNCHANGED <<command, runSections, entries, seen_values, stdout, secIdx,
                   xrandr_calls, notRun>>

\* run: one iteration of the `for section in &sections` loop of a map
\* command.
RunMapStep ==
    /\ runPc = "loop"
    /\ secIdx < Len(runSections)
    /\ \E dec \in Consulted(DecoderOutcomes, Unwrap(command) = "display_serial_map") :
          LET section == runSections[secIdx + 1]
              v == MapValue(Unwrap(command), section, dec, monitor_map)
              r == output_map_entry(section.name, v.value, flags, seen_values)
          IN /\ errLog' = errLog \o [i \in 1..Len(v.failed) |->
                                        [op |-> v.failed[i], outLen |-> Len(stdout)]]
             /\ entries' = IF v.call
                           THEN Append(entries, [name |-> section.name, value |-> v.value])
                           ELSE entries
             /\ stdout' = IF v.call THEN stdout \o r.printed ELSE stdout
             /\ seen_values' = IF v.call THEN r.seen ELSE seen_values
    /\ secIdx' = secIdx + 1
    /\ UNCHANGED <<command, args, runSections, flags, monitor_map, runResult, runPc,
                   xrandr_calls, notRun>>

\* run: the loop of a map command is over and run returns Ok(()).
RunMapEnd ==
    /\ runPc = "loop"
    /\ secIdx = Len(runSections)
    /\ runResult' = Some(Ok(<<>>))
    /\ runPc' = "exit"
    /\ UNCHANGED <<command, args, runSections, flags, entries, seen_values, stdout,
                   monitor_map, secIdx, errLog, xrandr_calls, notRun>>

\* ------------------------------------------------------------------
\* Inputs of the header parser: lines of at most MaxHeaderTokens tokens from
\* HeaderTokenPool (a name, the two state words, a state word in the wrong
\* case, `primary`, two geometries), separated by a space or by a tab and a
\* space, with or without leading whitespace.
MaxHeaderTokens == 4
HeaderTokenPool ==
    {<<"A">>, STR_connected, STR_disconnected,
     <<"C", "o", "n", "n", "e", "c", "t", "e", "d">>, STR_primary,
     <<"7", "x", "7", "+", "0", "+", "0">>, <<"1", "x", "1", "+", "0", "+", "0">>}
RECURSIVE JoinTokens(_, _)
JoinTokens(toks, sep) ==
    IF toks = <<>> THEN <<>>
    ELSE IF Tail(toks) = <<>> THEN Head(toks)
    ELSE Head(toks) \o sep \o JoinTokens(Tail(toks), sep)
HeaderLines(n) ==
    {lead \o JoinTokens(toks, sep) :
        lead \in {<<>>, <<" ">>}, sep \in {<<" ">>, <<"\t", " ">>},
        toks \in SeqsUpTo(HeaderTokenPool, n)}

ParseHeader ==
    /\ headerPc = "call"
    /\ headerResult' = parse_header(headerLine)
    /\ headerPc' = "done"
    /\ UNCHANGED <<headerLine, notHeader>>

\* ------------------------------------------------------------------
\* Inputs of the monitor map parser: texts of at most MaxMonitorLines lines
\* from MonitorLinePool, every line ended by "\n" or the last one left
\* unended.
MaxMonitorLines == 3
MonitorLinePool ==
    { \* "Monitors: 1"
      STR_Monitors \o <<" ", "1">>,
      \* " 0: +*A A"
      <<" ", "0", ":", " ", "+", "*", "A", " ", "A">>,
      \* "1: +B A": the key of the line above again
      <<"1", ":", " ", "+", "B", " ", "A">>,
      \* "3:4 B ": two colons in the index, a trailing space
      <<"3", ":", "4", " ", "B", " ">>,
      \* "2 B": no colon in the index
      <<"2", " ", "B">>,
      \* "0:": one token
      <<"0", ":">>,
      \* "  ": blank
      <<" ", " ">> }
MonitorTexts(n) ==
    LET ended == {JoinLines(ls) : ls \in SeqsUpTo(MonitorLinePool, n)}
    IN ended \cup {DropLast(t) : t \in ended \ {<<>>}}

ParseMonitorMap ==
    /\ monitorPc = "call"
    /\ monitorResult' = parse_monitor_map(monitorText)
    /\ monitorPc' = "done"
    /\ UNCHANGED <<monitorText, notMonitor>>

\* ------------------------------------------------------------------
\* Inputs of the connector id lookup: the lines of a section, that is a
\* header line followed by at most MaxConnectorLines lines from
\* ConnectorLinePool.
MaxConnectorLines == 3
ConnectorLinePool ==
    { \* "\tCONNECTOR_ID: 5"
      <<"\t">> \o STR_CONNECTOR_ID \o <<" ", "5">>,
      \* "CONNECTOR_ID:7 ": nothing between the colon and the value
      STR_CONNECTOR_ID \o <<"7", " ">>,
      \* "CONNECTOR_ID:": nothing after the colon
      STR_CONNECTOR_ID,
      \* "\tCONNECTOR_ID:  ": blanks after the colon
      <<"\t">> \o STR_CONNECTOR_ID \o <<" ", " ">>,
      \* "connector_id: 9": the label in the wrong case
      <<"c", "o", "n", "n", "e", "c", "t", "o", "r", "_", "i", "d", ":", " ", "9">>,
      \* "id CONNECTOR_ID: 8": the label not at the start
      <<"i", "d", " ">> \o STR_CONNECTOR_ID \o <<" ", "8">> }
ConnectorSections(n) == {<<LINE_HeaderX>> \o body : body \in SeqsUpTo(ConnectorLinePool, n)}

ExtractConnectorId ==
    /\ connectorPc = "call"
    /\ connectorResult' = extract_connector_id([lines |-> connectorLines])
    /\ connectorPc' = "done"
    /\ UNCHANGED <<connectorLines, notConnector>>

\* ==================================================================
\* Specifications: one per function under study.  In each, the variables of
\* the other functions keep the values they have when nothing has run.

\* is_geometry_token applied to one token.
GeomInit ==
    /\ token \in GeomTokens(MaxTokenLen, MaxRun)
    /\ geomResult = "unset"
    /\ verbose = <<>>
    /\ lineNo = 0
    /\ sections = <<>>
    /\ current = <<>>
    /\ segPc = "idle"
    /\ secLines = <<>>
    /\ edidIdx = 0
    /\ capture = FALSE
    /\ hex = <<>>
    /\ edidPc = "idle"
    /\ edidResult = <<>>
    /\ decoded = <<>>
    /\ serialResult = <<>>
    /\ serialPc = "idle"
    /\ hexText = <<>>
    /\ hexResult = Ok(<<>>)
    /\ hexPc = "idle"
    /\ args = <<>>
    /\ flags = DefaultMapFlags
    /\ entries = <<>>
    /\ seen_values = {}
    /\ stdout = <<>>
    /\ mapPc = "idle"
    /\ runResult = <<>>
    /\ command = <<>>
    /\ runSections = <<>>
    /\ monitor_map = <<>>
    /\ secIdx = 0
    /\ xrandr_calls = <<>>
    /\ errLog = <<>>
    /\ runPc = "idle"
    /\ headerLine = <<>>
    /\ headerResult = <<>>
    /\ headerPc = "idle"
    /\ monitorText = <<>>
    /\ monitorResult = <<>>
    /\ monitorPc = "idle"
    /\ connectorLines = <<>>
    /\ connectorResult = <<>>
    /\ connectorPc = "idle"
GeomNext ==
    \/ CheckGeometry
SpecGeom == GeomInit /\ [][GeomNext]_vars

\* parse_sections scanning one text.
SegInit ==
    /\ token = <<>>
    /\ geomResult = "idle"
    /\ verbose \in SegTexts(MaxLines)
    /\ lineNo = 0
    /\ sections = <<>>
    /\ current = None
    /\ segPc = "scan"
    /\ secLines = <<>>
    /\ edidIdx = 0
    /\ capture = FALSE
    /\ hex = <<>>
    /\ edidPc = "idle"
    /\ edidResult = <<>>
    /\ decoded = <<>>
    /\ serialResult = <<>>
    /\ serialPc = "idle"
    /\ hexText = <<>>
    /\ hexResult = Ok(<<>>)
    /\ hexPc = "idle"
    /\ args = <<>>
    /\ flags = DefaultMapFlags
    /\ entries = <<>>
    /\ seen_values = {}
    /\ stdout = <<>>
    /\ mapPc = "idle"
    /\ runResult = <<>>
    /\ command = <<>>
    /\ runSections = <<>>
    /\ monitor_map = <<>>
    /\ secIdx = 0
    /\ xrandr_calls = <<>>
    /\ errLog = <<>>
    /\ runPc = "idle"
    /\ headerLine = <<>>
    /\ headerResult = <<>>
    /\ headerPc = "idle"
    /\ monitorText = <<>>
    /\ monitorResult = <<>>
    /\ monitorPc = "idle"
    /\ connectorLines = <<>>
    /\ connectorResult = <<>>
    /\ connectorPc = "idle"
SegNext ==
    \/ ScanLine
    \/ FinishScan
SpecSeg == SegInit /\ [][SegNext]_vars

\* extract_edid_hex scanning one section.
EdidInit ==
    /\ token = <<>>
    /\ geomResult = "idle"
    /\ verbose = <<>>
    /\ lineNo = 0
    /\ sections = <<>>
    /\ current = <<>>
    /\ segPc = "idle"
    /\ secLines \in EdidSections(MaxBodyLines)
    /\ edidIdx = 0
    /\ capture = FALSE
    /\ hex = <<>>
    /\ edidPc = "scan"
    /\ edidResult = None
    /\ decoded = <<>>
    /\ serialResult = <<>>
    /\ serialPc = "idle"
    /\ hexText = <<>>
    /\ hexResult = Ok(<<>>)
    /\ hexPc = "idle"
    /\ args = <<>>
    /\ flags = DefaultMapFlags
    /\ entries = <<>>
    /\ seen_values = {}
    /\ stdout = <<>>
    /\ mapPc = "idle"
    /\ runResult = <<>>
    /\ command = <<>>
    /\ runSections = <<>>
    /\ monitor_map = <<>>
    /\ secIdx = 0
    /\ xrandr_calls = <<>>
    /\ errLog = <<>>
    /\ runPc = "idle"
    /\ headerLine = <<>>
    /\ headerResult = <<>>
    /\ headerPc = "idle"
    /\ monitorText = <<>>
    /\ monitorResult = <<>>
    /\ monitorPc = "idle"
    /\ connectorLines = <<>>
    /\ connectorResult = <<>>
    /\ connectorPc = "idle"
EdidNext ==
    \/ EdidScanLine
    \/ EdidReturn
SpecEdid == EdidInit /\ [][EdidNext]_vars

\* extract_serial applied to one report.
SerialInit ==
    /\ token = <<>>
    /\ geomResult = "idle"
    /\ verbose = <<>>
    /\ lineNo = 0
    /\ sections = <<>>
    /\ current = <<>>
    /\ segPc = "idle"
    /\ secLines = <<>>
    /\ edidIdx = 0
    /\ capture = FALSE
    /\ hex = <<>>
    /\ edidPc = "idle"
    /\ edidResult = <<>>
    /\ decoded \in Reports(MaxReportLines)
    /\ serialResult = None
    /\ serialPc = "call"
    /\ hexText = <<>>
    /\ hexResult = Ok(<<>>)
    /\ hexPc = "idle"
    /\ args = <<>>
    /\ flags = DefaultMapFlags
    /\ entries = <<>>
    /\ seen_values = {}
    /\ stdout = <<>>
    /\ mapPc = "idle"
    /\ runResult = <<>>
    /\ command = <<>>
    /\ runSections = <<>>
    /\ monitor_map = <<>>
    /\ secIdx = 0
    /\ xrandr_calls = <<>>
    /\ errLog = <<>>
    /\ runPc = "idle"
    /\ headerLine = <<>>
    /\ headerResult = <<>>
    /\ headerPc = "idle"
    /\ monitorText = <<>>
    /\ monitorResult = <<>>
    /\ monitorPc = "idle"
    /\ connectorLines = <<>>
    /\ connectorResult = <<>>
    /\ connectorPc = "idle"
SerialNext ==
    \/ ExtractSerial
SpecSerial == SerialInit /\ [][SerialNext]_vars

\* hex_to_bytes applied to one text.
HexcInit ==
    /\ token = <<>>
    /\ geomResult = "idle"
    /\ verbose = <<>>
    /\ lineNo = 0
    /\ sections = <<>>
    /\ current = <<>>
    /\ segPc = "idle"
    /\ secLines = <<>>
    /\ edidIdx = 0
    /\ capture = FALSE
    /\ hex = <<>>
    /\ edidPc = "idle"
    /\ edidResult = <<>>
    /\ decoded = <<>>
    /\ serialResult = <<>>
    /\ serialPc = "idle"
    /\ hexText \in SeqsUpTo(HexInputChars, MaxHexLen)
    /\ hexResult = Ok(<<>>)
    /\ hexPc = "call"
    /\ args = <<>>
    /\ flags = DefaultMapFlags
    /\ entries = <<>>
    /\ seen_values = {}
    /\ stdout = <<>>
    /\ mapPc = "idle"
    /\ runResult = <<>>
    /\ command = <<>>
    /\ runSections = <<>>
    /\ monitor_map = <<>>
    /\ secIdx = 0
    /\ xrandr_calls = <<>>
    /\ errLog = <<>>
    /\ runPc = "idle"
    /\ headerLine = <<>>
    /\ headerResult = <<>>
    /\ headerPc = "idle"
    /\ monitorText = <<>>
    /\ monitorResult = <<>>
    /\ monitorPc = "idle"
    /\ connectorLines = <<>>
    /\ connectorResult = <<>>
    /\ connectorPc = "idle"
HexcNext ==
    \/ HexToBytes
SpecHexc == HexcInit /\ [][HexcNext]_vars

\* a map command from parse_map_flags to its return.
MapInit ==
    /\ token = <<>>
    /\ geomResult = "idle"
    /\ verbose = <<>>
    /\ lineNo = 0
    /\ sections = <<>>
    /\ current = <<>>
    /\ segPc = "idle"
    /\ secLines = <<>>
    /\ edidIdx = 0
    /\ capture = FALSE
    /\ hex = <<>>
    /\ edidPc = "idle"
    /\ edidResult = <<>>
    /\ decoded = <<>>
    /\ serialResult = <<>>
    /\ serialPc = "idle"
    /\ hexText = <<>>
    /\ hexResult = Ok(<<>>)
    /\ hexPc = "idle"
    /\ args \in SeqsUpTo(ArgPool, MaxArgs)
    /\ flags = DefaultMapFlags
    /\ entries = <<>>
    /\ seen_values = {}
    /\ stdout = <<>>
    /\ mapPc = "flags"
    /\ runResult = None
    /\ command = <<>>
    /\ runSections = <<>>
    /\ monitor_map = <<>>
    /\ secIdx = 0
    /\ xrandr_calls = <<>>
    /\ errLog = <<>>
    /\ runPc = "idle"
    /\ headerLine = <<>>
    /\ headerResult = <<>>
    /\ headerPc = "idle"
    /\ monitorText = <<>>
    /\ monitorResult = <<>>
    /\ monitorPc = "idle"
    /\ connectorLines = <<>>
    /\ connectorResult = <<>>
    /\ connectorPc = "idle"
MapNext ==
    \/ ParseMapFlags
    \/ OutputEntry
    \/ FinishMap
SpecMap == MapInit /\ [][MapNext]_vars

\* run, from the command line to its return.
RunInit ==
    /\ token = <<>>
    /\ geomResult = "idle"
    /\ verbose = <<>>
    /\ lineNo = 0
    /\ sections = <<>>
    /\ current = <<>>
    /\ segPc = "idle"
    /\ secLines = <<>>
    /\ edidIdx = 0
    /\ capture = FALSE
    /\ hex = <<>>
    /\ edidPc = "idle"
    /\ edidResult = <<>>
    /\ decoded = <<>>
    /\ serialResult = <<>>
    /\ serialPc = "idle"
    /\ hexText = <<>>
    /\ hexResult = Ok(<<>>)
    /\ hexPc = "idle"
    /\ args \in RunArgLists
    /\ flags = DefaultMapFlags
    /\ entries = <<>>
    /\ seen_values = {}
    /\ stdout = <<>>
    /\ mapPc = "idle"
    /\ runResult = <<>>
    /\ command \in CommandWords
    /\ runSections = <<>>
    /\ monitor_map = <<>>
    /\ secIdx = 0
    /\ xrandr_calls = <<>>
    /\ errLog = <<>>
    /\ runPc = "start"
    /\ headerLine = <<>>
    /\ headerResult = <<>>
    /\ headerPc = "idle"
    /\ monitorText = <<>>
    /\ monitorResult = <<>>
    /\ monitorPc = "idle"
    /\ connectorLines = <<>>
    /\ connectorResult = <<>>
    /\ connectorPc = "idle"
RunNext ==
    \/ RunStart
    \/ RunCommand
    \/ RunMapBegin
    \/ RunMapStep
    \/ RunMapEnd
SpecRun == RunInit /\ [][RunNext]_vars

\* parse_header applied to one line.
HeaderInit ==
    /\ token = <<>>
    /\ geomResult = "idle"
    /\ verbose = <<>>
    /\ lineNo = 0
    /\ sections = <<>>
    /\ current = <<>>
    /\ segPc = "idle"
    /\ secLines = <<>>
    /\ edidIdx = 0
    /\ capture = FALSE
    /\ hex = <<>>
    /\ edidPc = "idle"
    /\ edidResult = <<>>
    /\ decoded = <<>>
    /\ serialResult = <<>>
    /\ serialPc = "idle"
    /\ hexText = <<>>
    /\ hexResult = Ok(<<>>)
    /\ hexPc = "idle"
    /\ args = <<>>
    /\ flags = DefaultMapFlags
    /\ entries = <<>>
    /\ seen_values = {}
    /\ stdout = <<>>
    /\ mapPc = "idle"
    /\ runResult = <<>>
    /\ command = <<>>
    /\ runSections = <<>>
    /\ monitor_map = <<>>
    /\ secIdx = 0
    /\ xrandr_calls = <<>>
    /\ errLog = <<>>
    /\ runPc = "idle"
    /\ headerLine \in HeaderLines(MaxHeaderTokens)
    /\ headerResult = None
    /\ headerPc = "call"
    /\ monitorText = <<>>
    /\ monitorResult = <<>>
    /\ monitorPc = "idle"
    /\ connectorLines = <<>>
    /\ connectorResult = <<>>
    /\ connectorPc = "idle"
HeaderNext ==
    \/ ParseHeader
SpecHeader == HeaderInit /\ [][HeaderNext]_vars

\* parse_monitor_map applied to one text.
MonitorInit ==
    /\ token = <<>>
    /\ geomResult = "idle"
    /\ verbose = <<>>
    /\ lineNo = 0
    /\ sections = <<>>
    /\ current = <<>>
    /\ segPc = "idle"
    /\ secLines = <<>>
    /\ edidIdx = 0
    /\ capture = FALSE
    /\ hex = <<>>
    /\ edidPc = "idle"
    /\ edidResult = <<>>
    /\ decoded = <<>>
    /\ serialResult = <<>>
    /\ serialPc = "idle"
    /\ hexText = <<>>
    /\ hexResult = Ok(<<>>)
    /\ hexPc = "idle"
    /\ args = <<>>
    /\ flags = DefaultMapFlags
    /\ entries = <<>>
    /\ seen_values = {}
    /\ stdout = <<>>
    /\ mapPc = "idle"
    /\ runResult = <<>>
    /\ command = <<>>
    /\ runSections = <<>>
    /\ monitor_map = <<>>
    /\ secIdx = 0
    /\ xrandr_calls = <<>>
    /\ errLog = <<>>
    /\ runPc = "idle"
    /\ headerLine = <<>>
    /\ headerResult = <<>>
    /\ headerPc = "idle"
    /\ monitorText \in MonitorTexts(MaxMonitorLines)
    /\ monitorResult = <<>>
    /\ monitorPc = "call"
    /\ connectorLines = <<>>
    /\ connectorResult = <<>>
    /\ connectorPc = "idle"
MonitorNext ==
    \/ ParseMonitorMap
SpecMonitor == MonitorInit /\ [][MonitorNext]_vars

\* extract_connector_id applied to one section.
ConnectorInit ==
    /\ token = <<>>
    /\ geomResult = "idle"
    /\ verbose = <<>>
    /\ lineNo = 0
    /\ sections = <<>>
    /\ current = <<>>
    /\ segPc = "idle"
    /\ secLines = <<>>
    /\ edidIdx = 0
    /\ capture = FALSE
    /\ hex = <<>>
    /\ edidPc = "idle"
    /\ edidResult = <<>>
    /\ decoded = <<>>
    /\ serialResult = <<>>
    /\ serialPc = "idle"
    /\ hexText = <<>>
    /\ hexResult = Ok(<<>>)
    /\ hexPc = "idle"
    /\ args = <<>>
    /\ flags = DefaultMapFlags
    /\ entries = <<>>
    /\ seen_values = {}
    /\ stdout = <<>>
    /\ mapPc = "idle"
    /\ runResult = <<>>
    /\ command = <<>>
    /\ runSections = <<>>
    /\ monitor_map = <<>>
    /\ secIdx = 0
    /\ xrandr_calls = <<>>
    /\ errLog = <<>>
    /\ runPc = "idle"
    /\ headerLine = <<>>
    /\ headerResult = <<>>
    /\ headerPc = "idle"
    /\ monitorText = <<>>
    /\ monitorResult = <<>>
    /\ monitorPc = "idle"
    /\ connectorLines \in ConnectorSections(MaxConnectorLines)
    /\ connectorResult = None
    /\ connectorPc = "call"
ConnectorNext ==
    \/ ExtractConnectorId
SpecConnector == ConnectorInit /\ [][ConnectorNext]_vars

\* ==================================================================
\* Claims

\* C10: for every token t, is_geometry_token(t) is true iff t matches
\* ^\d+x\d+[+-]\d+[+-]\d+$ exactly: non-empty ASCII digit runs for width and
\* height around a lower-case x, then two offsets each a single + or -
\* followed by at least one digit, and nothing after them.
C10_GeometryIffPattern ==
    geomResult \in {"true", "false"} =>
        ((geomResult = "true") <=> MatchesGeometryPattern(token))
\* An accepted token with a multi-digit run and a negative offset.
C10_Witness ==
    /\ geomResult = "true"
    /\ Len(token) > 7
    /\ \E p \in 1..Len(token) : token[p] = "-"

\* C1: parse_sections emits one section per header line, in the order of the
\* header lines; a section's lines are its header line followed, verbatim and
\* in order, by the non-header lines up to the next header line; lines before
\* the first header are in no section; at most one section is open at a time.
\* Stated at every point of the scan, over the lines consumed so far: the
\* emitted sections followed by the open one are the sections of that prefix.
HeaderIdx(ls) == {i \in 1..Len(ls) : IsSome(parse_header(ls[i]))}
NextHeader(H, n, i) ==
    IF {j \in H : j > i} = {} THEN n + 1 ELSE MinOf({j \in H : j > i})
SectionsAt(secs, ls, H) ==
    /\ Len(secs) = Cardinality(H)
    /\ \A i \in H :
          LET sec == secs[Cardinality({j \in H : j <= i})] IN
          /\ sec.lines = SubSeq(ls, i, NextHeader(H, Len(ls), i) - 1)
          /\ Some([name |-> sec.name, state |-> sec.state, primary |-> sec.primary,
                   geometry |-> sec.geometry]) = parse_header(ls[i])
SectionsOf(secs, ls) == SectionsAt(secs, ls, HeaderIdx(ls))
C1_SectionsFollowHeaders ==
    segPc \in {"scan", "done"} =>
        /\ Len(current) <= 1
        /\ segPc = "done" => (current = None /\ lineNo = Len(lines(verbose)))
        /\ SectionsOf(sections \o current, SubSeq(lines(verbose), 1, lineNo))
\* A finished scan of a text whose first line is no header and which has two
\* sections, the first of them with a body line.
C1_Witness ==
    /\ segPc = "done"
    /\ Len(sections) = 2
    /\ Len(sections[1].lines) = 2
    /\ sections[2].state = "Disconnected"
    /\ parse_header(lines(verbose)[1]) = None

\* C2: once in capture mode, EDID hex capture ends for good on the first
\* later line that is blank after trimming or holds a character other than
\* hex digits and whitespace: that line adds nothing, no later line of the
\* section is scanned, and none adds hex digits to the result.
\* ("Whitespace" is read the way the code tests it, as ASCII whitespace.)
IsLabelLine(line) == starts_with(trim(line), STR_EDID)
LabelIdx(ls) == {i \in 1..Len(ls) : IsLabelLine(ls[i])}
\* The lines the claim says end capture: those after the first label line
\* that are blank or not made of hex digits and whitespace.
EndsCapture(ls, i) ==
    /\ LabelIdx(ls) # {}
    /\ i > MinOf(LabelIdx(ls))
    /\ trim(ls[i]) = <<>> \/ ~AllHexOrSpace(trim(ls[i]))
C2_CaptureEndIsFinal ==
    edidPc \in {"scan", "break", "done"} =>
        \A i \in 1..Len(secLines) :
            (EndsCapture(secLines, i) /\ edidIdx >= i) =>
                /\ edidIdx = i
                /\ edidPc \in {"break", "done"}

\* C3: extract_edid_hex returns None iff no hex digit was accumulated (so also
\* when there is no `EDID:` label line); otherwise it returns, in order and
\* with whitespace removed, the hex digits of the all-hex lines captured after
\* the label line; lines before the label line contribute nothing.  The
\* documented example gives "00ffffff00112233".
WithoutWhitespace(s) == SelectSeq(s, LAMBDA ch : ~is_whitespace(ch))
\* The first line after the first label line that is neither a label line nor
\* made of hex digits and whitespace (or blank): where the scan stops.
StopIdx(ls) ==
    LET first == MinOf(LabelIdx(ls))
        stops == {i \in (first + 1)..Len(ls) :
                     /\ ~IsLabelLine(ls[i])
                     /\ trim(ls[i]) = <<>> \/ ~AllHexOrSpace(trim(ls[i]))}
    IN IF stops = {} THEN Len(ls) + 1 ELSE MinOf(stops)
RECURSIVE HexOfLines(_, _, _)
HexOfLines(ls, from, to) ==
    IF from > to THEN <<>>
    ELSE (IF IsLabelLine(ls[from]) THEN <<>> ELSE WithoutWhitespace(ls[from]))
         \o HexOfLines(ls, from + 1, to)
CapturedHex(ls) ==
    IF LabelIdx(ls) = {} THEN <<>>
    ELSE HexOfLines(ls, MinOf(LabelIdx(ls)) + 1, StopIdx(ls) - 1)
C3_EdidHexResult ==
    edidPc = "done" =>
        /\ (edidResult = None) <=> (hex = <<>>)
        /\ LabelIdx(secLines) = {} => edidResult = None
        /\ edidResult = IF CapturedHex(secLines) = <<>> THEN None
                        ELSE Some(CapturedHex(secLines))
        /\ secLines = EdidExampleLines =>
              edidResult = Some(<<"0", "0", "f", "f", "f", "f", "f", "f",
                                  "0", "0", "1", "1", "2", "2", "3", "3">>)
\* The documented example, scanned to its end.
C3_Witness ==
    /\ edidPc = "done"
    /\ secLines = EdidExampleLines
    /\ IsSome(edidResult)

\* C4: extract_serial tries three strategies in a fixed order, each over the
\* whole report: (a) the first '...'-quoted text of a line containing
\* `Display Product Serial Number:`, (b) the text after the first `:` of a line
\* containing `Serial Number:`, (c) the first '...'-quoted text of a line
\* containing `Alphanumeric Data String:`.  The result is the first value that
\* is not empty after trimming of the first strategy that has one anywhere in
\* the report, whatever the order of the lines, and None if none has one.
QuoteIdx(line) == {i \in 1..Len(line) : line[i] = "'"}
\* The trimmed text between the first two quotes of the line; empty if the
\* line has fewer than two quotes.
FirstQuoted(line) ==
    IF Cardinality(QuoteIdx(line)) < 2 THEN <<>>
    ELSE trim(SubSeq(line, Kth(QuoteIdx(line), 1) + 1, Kth(QuoteIdx(line), 2) - 1))
AfterFirstColon(line) ==
    IF \A i \in 1..Len(line) : line[i] # ":" THEN <<>>
    ELSE trim(SubSeq(line, MinOf({i \in 1..Len(line) : line[i] = ":"}) + 1, Len(line)))
\* The value a strategy accepts on a line; empty when it accepts none.
StrategyValue(k, line) ==
    CASE k = 1 -> IF contains(line, STR_DisplayProductSerialNumber) THEN FirstQuoted(line) ELSE <<>>
      [] k = 2 -> IF contains(line, STR_SerialNumber) THEN AfterFirstColon(line) ELSE <<>>
      [] k = 3 -> IF contains(line, STR_AlphanumericDataString) THEN FirstQuoted(line) ELSE <<>>
Yields(k, ls) == {i \in 1..Len(ls) : StrategyValue(k, ls[i]) # <<>>}
ExpectedSerial(ls) ==
    IF \A k \in 1..3 : Yields(k, ls) = {} THEN None
    ELSE LET k == MinOf({j \in 1..3 : Yields(j, ls) # {}})
         IN Some(StrategyValue(k, ls[MinOf(Yields(k, ls))]))
C4_SerialPriority ==
    serialPc = "done" =>
        /\ serialResult = ExpectedSerial(lines(decoded))
        /\ (\E i \in 1..Len(lines(decoded)) : lines(decoded)[i] = REP_Product) =>
              serialResult = Some(<<"X", "Y", "Z", "9", "9", "9">>)
\* A report whose `Serial Number:` line comes before its quoted product
\* serial line: the quoted one is returned.
C4_Witness ==
    /\ serialPc = "done"
    /\ Len(lines(decoded)) >= 2
    /\ lines(decoded)[1] = REP_Serial
    /\ lines(decoded)[2] = REP_Product
    /\ serialResult = Some(<<"X", "Y", "Z", "9", "9", "9">>)

\* C5: hex_to_bytes, after removing all ASCII whitespace, succeeds iff the
\* number of remaining characters is even and every pair is two hexadecimal
\* digits of either case; on success it returns length/2 bytes, byte i being
\* 16 * value(char 2i) + value(char 2i+1), so that decoding the hex encoding of
\* a byte sequence returns that sequence; on odd length or an invalid pair it
\* returns an error and no byte buffer, not even a partial one.
HexAlphabet == <<"0", "1", "2", "3", "4", "5", "6", "7", "8", "9",
                 "a", "b", "c", "d", "e", "f">>
HexEncode(bytes) ==
    [i \in 1..(2 * Len(bytes)) |->
        IF i % 2 = 1 THEN HexAlphabet[(bytes[(i + 1) \div 2] \div 16) + 1]
        ELSE HexAlphabet[(bytes[i \div 2] % 16) + 1]]
ToLower(ch) ==
    IF \E i \in 1..6 : UpperAF[i] = ch THEN LowerAF[PositionIn(UpperAF, ch)] ELSE ch
WithoutAsciiWhitespace(s) == SelectSeq(s, LAMBDA ch : ch \notin {" ", "\t", "\n", "\f", "\r"})
IsPairedHex(s) ==
    /\ Len(s) % 2 = 0
    /\ \A i \in 1..Len(s) : ToLower(s[i]) \in {HexAlphabet[j] : j \in 1..16}
C5_HexDecode ==
    hexPc = "done" =>
        LET s == WithoutAsciiWhitespace(hexText) IN
        /\ hexResult.ok <=> IsPairedHex(s)
        /\ hexResult.ok =>
              /\ Len(hexResult.value) * 2 = Len(s)
              /\ \A i \in 1..Len(hexResult.value) : hexResult.value[i] \in 0..255
              /\ HexEncode(hexResult.value) = [i \in 1..Len(s) |-> ToLower(s[i])]
        /\ ~hexResult.ok => (hexResult.value = <<>> /\ hexResult.err # <<>>)
\* A successful decode of a text with a space and an upper-case digit in it.
C5_Witness ==
    /\ hexPc = "done"
    /\ hexResult.ok
    /\ Len(hexResult.value) >= 1
    /\ \E i, j \in 1..Len(hexText) : hexText[i] = " " /\ hexText[j] = "F"

\* C6: in values mode, over the entries passed to output_map_entry in one
\* invocation, each distinct value that is not empty (after trimming, the
\* test that suppresses an entry) is printed exactly once, at its first
\* occurrence and in first-occurrence order; seen_values is always the set of
\* the values printed, and in keys mode and in default mode it is never
\* modified.
IsBlank(value) == \A i \in 1..Len(value) : is_whitespace(value[i])
FirstOccurrenceIdx(es) ==
    {i \in 1..Len(es) : /\ ~IsBlank(es[i].value)
                        /\ \A j \in 1..(i - 1) : es[j].value # es[i].value}
FirstOccurrences(es) ==
    [k \in 1..Cardinality(FirstOccurrenceIdx(es)) |-> es[Kth(FirstOccurrenceIdx(es), k)].value]
C6_ValuesPrintedOnce ==
    mapPc \in {"loop", "exit"} =>
        /\ flags.values => /\ stdout = FirstOccurrences(entries)
                           /\ seen_values = {stdout[i] : i \in 1..Len(stdout)}
        /\ ~flags.values => seen_values = {}
\* Values mode after the values a, b, a: a then b are printed.
C6_Witness ==
    /\ flags.values
    /\ Len(entries) = 3
    /\ entries[1].value = <<"a">> /\ entries[2].value = <<"b">> /\ entries[3].value = <<"a">>
    /\ stdout = << <<"a">>, <<"b">> >>

\* C7: output_map_entry emits nothing when `filtered` or `values` is set and
\* the value is empty after trimming, in keys mode too; otherwise it emits the
\* key alone when `keys` is set and key=value when neither `keys` nor `values`
\* is set; so an empty value is still emitted, as `key=` or as the bare key,
\* when neither `filtered` nor `values` is set.
Suppressed(e) == (flags.filtered \/ flags.values) /\ IsBlank(e.value)
EmittedIdx(es) == {i \in 1..Len(es) : ~Suppressed(es[i])}
C7_MapEntryPolicy ==
    mapPc \in {"loop", "exit"} =>
        /\ flags.keys =>
              stdout = [k \in 1..Cardinality(EmittedIdx(entries)) |->
                           entries[Kth(EmittedIdx(entries), k)].name]
        /\ (~flags.keys /\ ~flags.values) =>
              stdout = [k \in 1..Cardinality(EmittedIdx(entries)) |->
                           LET e == entries[Kth(EmittedIdx(entries), k)]
                           IN e.name \o <<"=">> \o e.value]
        /\ Len(stdout) <= Cardinality(EmittedIdx(entries))
\* Keys mode with --filtered: a whitespace-only value is suppressed, the next
\* key is printed.
C7_Witness ==
    /\ flags.keys /\ flags.filtered
    /\ Len(entries) = 2
    /\ entries[1].value = <<" ">> /\ entries[2].value = <<"a">>
    /\ stdout = <<EntryName(2)>>

\* C8 as claimed: whenever both --keys and --values are among the arguments
\* of a map command, in either order, the invocation fails with an error
\* before any entry is printed.
BothSupplied(argv) ==
    \E i, j \in 1..Len(argv) : argv[i] = ARG_keys /\ argv[j] = ARG_values
C8_BothFlagsAlwaysFail ==
    [][(mapPc = "flags" /\ BothSupplied(args)) =>
          (mapPc' = "exit" /\ ~Unwrap(runResult').ok /\ stdout' = <<>>)]_vars

\* C8 as amended: whenever both --keys and --values are among the arguments
\* that come before the first argument not starting with `--`, the invocation
\* fails before any entry is printed, with the `cannot combine` error unless an
\* unknown option is met first; arguments from the first one that does not
\* start with `--` on are not read as flags; and no MapFlags ever has keys and
\* values both true.
LeadingOptions(argv) ==
    LET stops == {i \in 1..Len(argv) : ~starts_with(argv[i], STR_DashDash)}
    IN IF stops = {} THEN argv ELSE SubSeq(argv, 1, MinOf(stops) - 1)
HasUnknownOption(argv) ==
    \E i \in 1..Len(argv) : argv[i] \notin {ARG_filtered, ARG_keys, ARG_values}
C8_LeadingFlagsFail ==
    [][/\ (mapPc = "flags" /\ BothSupplied(LeadingOptions(args))) =>
              /\ mapPc' = "exit"
              /\ ~Unwrap(runResult').ok
              /\ stdout' = <<>>
              /\ ~HasUnknownOption(LeadingOptions(args)) =>
                    Unwrap(runResult').err = <<MSG_cannot_combine>>
       /\ (mapPc = "flags" /\ ~BothSupplied(LeadingOptions(args))
                           /\ ~HasUnknownOption(LeadingOptions(args))) =>
              (mapPc' = "loop" /\ args' = SubSeq(args, Len(LeadingOptions(args)) + 1, Len(args)))
       /\ ~(flags'.keys /\ flags'.values)]_vars
\* An invocation ended by the `cannot combine` error with nothing printed.
C8_Witness ==
    /\ mapPc = "exit"
    /\ IsSome(runResult)
    /\ Unwrap(runResult) = Err(<<MSG_cannot_combine>>)
    /\ stdout = <<>>

Dropped(failure) == command = Some("display_serial_map") /\ failure.op = "decode_edid"
C11_HeaderFields ==
    headerPc = "done" =>
        LET toks == split_whitespace(headerLine)
            noHeader == Len(toks) < 2 \/ toks[2] \notin {STR_connected, STR_disconnected}
            shaped == {i \in 3..Len(toks) : is_geometry_token(toks[i])}
        IN /\ (headerResult = None) <=> noHeader
           /\ ~noHeader =>
                 /\ Unwrap(headerResult).name = toks[1]
                 /\ Unwrap(headerResult).state =
                        (IF toks[2] = STR_connected THEN "Connected" ELSE "Disconnected")
                 /\ Unwrap(headerResult).primary = (\E i \in 3..Len(toks) : toks[i] = STR_primary)
                 /\ Unwrap(headerResult).geometry =
                        (IF shaped = {} THEN None ELSE Some(toks[MinOf(shaped)]))
\* A header with two different geometries after the state word: the first
\* is kept.
C11_Witness ==
    /\ headerPc = "done"
    /\ IsSome(headerResult)
    /\ Unwrap(headerResult).geometry = Some(<<"7", "x", "7", "+", "0", "+", "0">>)
    /\ Len(split_whitespace(headerLine)) = 4
    /\ split_whitespace(headerLine)[4] = <<"1", "x", "1", "+", "0", "+", "0">>

\* C12 as claimed: parse_monitor_map skips the first line iff it starts with
\* `Monitors:`; every other line that is not blank gives an entry whose key
\* is the last token of the line and whose value is the first token cut at
\* its first `:`; of the lines with the same key the last one wins.
DataLines(text) ==
    IF lines(text) # <<>> /\ starts_with(Head(lines(text)), STR_Monitors)
    THEN Tail(lines(text)) ELSE lines(text)
LastToken(line) == split_whitespace(line)[Len(split_whitespace(line))]
IndexValue(line) ==
    LET first == split_whitespace(line)[1]
        colons == {j \in 1..Len(first) : first[j] = ":"}
    IN IF colons = {} THEN first ELSE SubSeq(first, 1, MinOf(colons) - 1)
\* The map given by the lines of ls with at least minTokens tokens.
MapOfLines(ls, minTokens) ==
    LET idx == {i \in 1..Len(ls) : Len(split_whitespace(ls[i])) >= minTokens}
    IN [k \in {LastToken(ls[i]) : i \in idx} |->
           IndexValue(ls[MaxOf({i \in idx : LastToken(ls[i]) = k})])]
SameMap(m1, m2) == DOMAIN m1 = DOMAIN m2 /\ \A k \in DOMAIN m1 : m1[k] = m2[k]
C12_EveryLineInserts ==
    monitorPc = "done" => SameMap(monitorResult, MapOfLines(DataLines(monitorText), 1))

\* C12 as amended: the same, but only a line with at least two tokens gives
\* an entry; a line with a single token gives none.
C12_TwoTokenLinesInsert ==
    monitorPc = "done" => SameMap(monitorResult, MapOfLines(DataLines(monitorText), 2))
\* Two lines with the key A and a line with one token: A has the index of the
\* second line and there is no other key.
C12_Witness ==
    /\ monitorPc = "done"
    /\ Len(lines(monitorText)) = 3
    /\ lines(monitorText)[3] = <<"0", ":">>
    /\ DOMAIN monitorResult = {<<"A">>}
    /\ monitorResult[<<"A">>] = <<"1">>

\* C13: extract_connector_id returns the trimmed remainder of the first
\* line of the section whose trimmed text starts with `CONNECTOR_ID:` and
\* whose remainder is not empty after trimming; a line with the label and an
\* empty remainder does not end the scan; the result is None iff no line
\* gives a non-empty value.
HasLabel(line) == starts_with(trim(line), STR_CONNECTOR_ID)
Remainder(line) == trim(SubSeq(trim(line), Len(STR_CONNECTOR_ID) + 1, Len(trim(line))))
ValueLines(ls) == {i \in 1..Len(ls) : HasLabel(ls[i]) /\ Remainder(ls[i]) # <<>>}
C13_ConnectorFirstNonEmpty ==
    connectorPc = "done" =>
        /\ (connectorResult = None) <=> ValueLines(connectorLines) = {}
        /\ ValueLines(connectorLines) # {} =>
              connectorResult = Some(Remainder(connectorLines[MinOf(ValueLines(connectorLines))]))
\* A line with the label and nothing after it, then a line with the value 5:
\* the result is 5.
C13_Witness ==
    /\ connectorPc = "done"
    /\ connectorResult = Some(<<"5">>)
    /\ \E i \in 1..Len(connectorLines) :
          /\ HasLabel(connectorLines[i]) /\ Remainder(connectorLines[i]) = <<>>
          /\ i < MinOf(ValueLines(connectorLines))

\* C14: xrandr is run for a reconfiguration at most once in an invocation,
\* only by single_display_output and dual_display_output and only when every
\* display asked for has a section and, for dual, left and right differ
\* (equal names are refused before any lookup); its arguments give the kept
\* or left display `--primary --auto`, the right display `--auto --right-of
\* <left>`, then `--output <name> --off` for every section whose name is no
\* kept display, in section order, and no `--off` for a kept display.
KeptDisplays ==
    IF Unwrap(command) = "single_display_output" THEN {args[1]} ELSE {args[1], args[2]}
LayoutArgs ==
    IF Unwrap(command) = "single_display_output"
    THEN <<OPT.output, args[1], OPT.primary, OPT.auto>>
    ELSE <<OPT.output, args[1], OPT.primary, OPT.auto,
           OPT.output, args[2], OPT.auto, OPT.right_of, args[1]>>
OtherSections == {i \in 1..Len(runSections) : runSections[i].name \notin KeptDisplays}
C14_ReconfigurationCalls ==
    /\ Len(xrandr_calls) <= 1
    /\ xrandr_calls # <<>> =>
          LET call == xrandr_calls[1]
              offs == SubSeq(call, Len(LayoutArgs) + 1, Len(call))
          IN /\ runPc = "exit"
             /\ Unwrap(command) \in {"single_display_output", "dual_display_output"}
             /\ \A k \in KeptDisplays : \E i \in 1..Len(runSections) : runSections[i].name = k
             /\ Unwrap(command) = "dual_display_output" => args[1] # args[2]
             /\ SubSeq(call, 1, Len(LayoutArgs)) = LayoutArgs
             /\ Len(offs) = 3 * Cardinality(OtherSections)
             /\ \A k \in 1..Cardinality(OtherSections) :
                   /\ offs[3 * k - 2] = OPT.output
                   /\ offs[3 * k - 1] = runSections[Kth(OtherSections, k)].name
                   /\ offs[3 * k] = OPT.off
             /\ \A j \in 2..Len(call) : call[j] = OPT.off => call[j - 1] \notin KeptDisplays
    /\ (/\ runPc = "exit" /\ command = Some("dual_display_output")
        /\ Len(args) >= 2 /\ args[1] = args[2] /\ errLog # <<>>
        /\ errLog[1].op # "get_verbose_text") =>
          Unwrap(runResult).err[1] = "left and right displays must be different"
\* dual_display_output A X over the sections A, X, B: B is turned off.
C14_Witness ==
    /\ command = Some("dual_display_output")
    /\ runPc = "exit"
    /\ [i \in 1..Len(runSections) |-> runSections[i].name] = << <<"A">>, <<"X">>, <<"B">> >>
    /\ xrandr_calls = << <<OPT.output, <<"A">>, OPT.primary, OPT.auto,
                            OPT.output, <<"X">>, OPT.auto, OPT.right_of, <<"A">>,
                            OPT.output, <<"B">>, OPT.off>> >>

====
